---- MODULE Spec2Model ----
(***************************************************************************)
(* Event publication layer of the user-management notification system:    *)
(*   app/events/kafka_utils.py        the forced-unavailable flag          *)
(*   app/events/kafka_test_helper.py  the in-memory capture buffer         *)
(*   app/events/kafka_producer.py     publish_event, its wrapper and the   *)
(*                                    default MockProducer                 *)
(*   app/services/email_service.py    EmailService and its fallbacks       *)
(*   app/tasks/email_tasks.py         the five executor tasks and their    *)
(*                                    retries                              *)
(*   app/tasks/consumers.py           the consumers and EVENT_CONSUMERS    *)
(*                                                                         *)
(* A publish_event call is modelled step by step, one step per read or     *)
(* write of the shared state (the flag, the TEST_MODE environment variable,*)
(* the capture buffer, the caller's payload dict), so that the gate can be *)
(* changed by another thread between any two steps of a call.              *)
(***************************************************************************)
EXTENDS Naturals, Sequences, FiniteSets, TLC

VARIABLES
    flag,      \* kafka_utils.simulate_kafka_unavailable["value"]
    env,       \* os.environ TEST_MODE ("unset" when the variable is absent)
    storage,   \* kafka_test_helper._test_event_storage: <<topic, dict object>>
    heap,      \* the payload dict objects callers own: object -> its content
    call,      \* the publish_event call in progress, or the last finished one
    hist,      \* which set_kafka_unavailable calls have been made so far
    svc,       \* the last EmailService operation: its inputs and what it did
    tasks,     \* the executor task messages of the worker pool, by message id
    consumed,  \* the consumer invocations made so far, in order
    now,       \* the clock the worker pool schedules by, in units of time
    conc       \* publish_event calls in flight at once, and what readers saw

vars == <<flag, env, storage, heap, call, hist, svc, tasks, consumed, now, conc>>

----------------------------------------------------------------------------
(* Bounds *)

\* Calls are started only while the capture buffer holds fewer entries.
MaxStored == 2

\* The reads of the capture buffer made while concurrent calls run.
MaxReads == 2

----------------------------------------------------------------------------
(* Event catalog: event_types.py *)

EventTypes ==
    {"EMAIL_VERIFICATION", "ACCOUNT_LOCKED", "ACCOUNT_UNLOCKED",
     "ROLE_UPGRADE", "PROFESSIONAL_STATUS_UPGRADE"}

\* (variant: two members share one value)
EventTypeValue_SharedTopic(member) ==
    CASE member = "EMAIL_VERIFICATION" -> "email_verification"
      [] member = "ACCOUNT_LOCKED" -> "account_locked"
      [] member = "ACCOUNT_UNLOCKED" -> "account_locked"
      [] member = "ROLE_UPGRADE" -> "role_upgrade"
      [] member = "PROFESSIONAL_STATUS_UPGRADE" -> "professional_status_upgrade"

\* EventType.<member>.value
EventTypeValue(member) ==
    CASE member = "EMAIL_VERIFICATION" -> "email_verification"
      [] member = "ACCOUNT_LOCKED" -> "account_locked"
      [] member = "ACCOUNT_UNLOCKED" -> "account_unlocked"
      [] member = "ROLE_UPGRADE" -> "role_upgrade"
      [] member = "PROFESSIONAL_STATUS_UPGRADE" -> "professional_status_upgrade"

None == "None"

----------------------------------------------------------------------------
(* Payload dicts *)

\* The dict objects handed to publish_event.  The capture buffer keeps the
\* object itself, not a copy, so a later call made with the same dict shows
\* in the entries that hold it.
Objects == {"d1"}

EmptyDict == [k \in {} |-> "x"]

\* What a caller may hand to publish_event: an empty dict, a payload without
\* a timestamp, a payload that already carries a caller-supplied timestamp.
InitialPayloads ==
    {EmptyDict,
     [email |-> "a@b.com"],
     [email |-> "a@b.com", timestamp |-> "caller"]}

\* datetime.utcnow().isoformat(): whatever the clock says at that moment.
Clock == {"t1", "t2"}

\* d[key] = value
SetItem(d, key, value) ==
    [k \in DOMAIN d \cup {key} |-> IF k = key THEN value ELSE d[k]]

\* bool(d) of a dict
DictTruthy(d) == DOMAIN d # {}

----------------------------------------------------------------------------
(* Availability gate *)

EnvValues == {"unset", "True", "true"}

\* (variant: a gate that reads the flag and not the environment)
BypassActive_FlagOnly(f, e) == f

\* wrapper, line 19: simulate_kafka_unavailable["value"] or
\* os.getenv('TEST_MODE') == 'True'
BypassActive(f, e) == f \/ e = "True"

\* publish_event, line 53: the re-check reads the flag only
RecheckRaises(f) == f

\* (variant: the default producer never looks at the flag)
MockSendRaises_Never(f) == FALSE

\* MockProducer.send, line 78
MockSendRaises(f) == f

\* The topics MockProducer.send may be handed when it is called directly:
\* the five kind identifiers and a string that is none of them.
Topics == {EventTypeValue(k) : k \in EventTypes} \cup {"test_topic"}

\* EventType(topic), line 81: the lookup by value finds a member
IsEventTypeValue(topic) == \E k \in EventTypes : EventTypeValue(k) = topic

\* (variant: a flag that, once set, stays set)
FlagAfterSet_Sticky(f, unavailable) == f \/ unavailable

\* set_kafka_unavailable, line 14
FlagAfterSet(f, unavailable) == unavailable

\* (variant: no except clause, the exception leaves the wrapper)
WrapperOnException_Propagates == "exception"

\* (variant: the except clause reports the failure)
WrapperOnException_False == "False"

\* wrapper, lines 39-42: an exception of the wrapped call becomes True
WrapperOnException == "True"

\* What the caller gets when the body of publish_event (lines 46-59, which
\* has no try of its own) raises: the wrapper's answer, or the exception
\* itself when the body was called without the wrapper.
ExceptionOutcome(path) ==
    IF path = "undecorated" THEN "exception" ELSE WrapperOnException

----------------------------------------------------------------------------
(* How the two arguments reach the wrapper: *args and **kwargs *)

Styles == {"positional", "mixed", "keyword"}

ArgsOf(style, k, o) ==
    CASE style = "positional" -> <<k, o>>
      [] style = "mixed" -> <<k>>
      [] style = "keyword" -> <<>>

KwargsOf(style, k, o) ==
    CASE style = "positional" -> EmptyDict
      [] style = "mixed" -> [payload |-> o]
      [] style = "keyword" -> [event_type |-> k, payload |-> o]

\* kwargs.get(key)
DictGet(d, key) == IF key \in DOMAIN d THEN d[key] ELSE None

\* wrapper, line 23
ExtractEventType(args, kwargs) ==
    IF Len(args) > 0 /\ args[1] \in EventTypes
    THEN args[1]
    ELSE DictGet(kwargs, "event_type")

\* wrapper, line 24
ExtractPayload(args, kwargs) ==
    IF Len(args) > 1 /\ args[2] \in Objects
    THEN args[2]
    ELSE DictGet(kwargs, "payload")

\* wrapper, line 26: if event_type and payload
CaptureGuard(event_type, payload, h) ==
    /\ event_type # None
    /\ payload # None
    /\ DictTruthy(h[payload])

\* wrapper, lines 26-30: what the bypass path appends to the capture buffer
CaptureEntries(event_type, payload, h) ==
    IF CaptureGuard(event_type, payload, h)
    THEN <<(<<EventTypeValue(event_type), payload>>)>>
    ELSE <<>>

----------------------------------------------------------------------------
(* Capture buffer: kafka_test_helper.py *)

\* (variant: the newest entry is put first)
StoreTestEvent_Prepend(s, topic, payload) == <<(<<topic, payload>>)>> \o s

\* store_test_event(topic, payload), lines 14-18: the tuple is appended; its
\* second component is the dict object itself, not a copy
StoreTestEvent(s, topic, payload) == Append(s, <<topic, payload>>)

\* get_stored_test_events(), lines 20-22, with every dict object read at
\* that moment
GetStoredTestEvents(s, h) == [i \in 1..Len(s) |-> <<s[i][1], h[s[i][2]]>>]

\* get_last_stored_event(), with the dict object read at that moment:
\* <<>> for None, else <<(topic, payload content)>>
LastStoredEvent(s, h) ==
    IF Len(s) > 0
    THEN <<(<<s[Len(s)][1], h[s[Len(s)][2]]>>)>>
    ELSE <<>>

----------------------------------------------------------------------------
(* One publish_event call *)

\* kind, obj: the arguments; passed: the dict's content when the call was made;
\* topic, sent: what producer.send was handed.
\* style and producer are recorded where the code first reads them (the
\* wrapper's extraction, the send).  The rest is what the call did and what
\* the gate was when it did it.
IdleCall ==
    [pc |-> "idle", kind |-> None, obj |-> None, producer |-> None,
     style |-> None, passed |-> EmptyDict,
     ret |-> "none", sends |-> 0, appended |-> 0,
     sendRaised |-> FALSE, accepted |-> FALSE,
     sent |-> EmptyDict, stamp |-> None, topic |-> None,
     bypassAtGate |-> FALSE, flagAtRecheck |-> FALSE, bypassAtSend |-> FALSE,
     restoredAtGate |-> FALSE, path |-> None,
     last |-> <<>>, flagAtSend |-> FALSE]

\* The call returns (or raises) with outcome r.
Finish(c, r, s, h) ==
    [c EXCEPT !.pc = "done", !.ret = r, !.last = LastStoredEvent(s, h)]

\* await publish_event(member, payload[, producer]) is entered
Call(k, o) ==
    /\ call.pc \in {"idle", "done"}
    /\ Len(storage) < MaxStored
    /\ call' = [IdleCall EXCEPT !.pc = "gate", !.kind = k, !.obj = o,
                                !.passed = heap[o]]
    /\ UNCHANGED <<flag, env, storage, heap, hist, svc, tasks, consumed, now, conc>>

\* The body of publish_event is entered without the wrapper: the function
\* the decorator was given, publish_event.__wrapped__(member, payload[,
\* producer]).
CallUndecorated(k, o) ==
    /\ call.pc \in {"idle", "done"}
    /\ Len(storage) < MaxStored
    /\ call' = [IdleCall EXCEPT !.pc = "recheck", !.kind = k, !.obj = o,
                                !.passed = heap[o], !.path = "undecorated"]
    /\ UNCHANGED <<flag, env, storage, heap, hist, svc, tasks, consumed, now, conc>>

\* wrapper, line 19, the left operand of the or: the flag is read.  When it
\* is true the or is decided and os.getenv is not called.
WrapperGateFlag ==
    /\ call.pc = "gate"
    /\ call' = [call EXCEPT
                  !.pc = IF flag THEN "capture" ELSE "gateenv",
                  !.path = IF flag THEN "bypass" ELSE None,
                  !.bypassAtGate = hist.flagNow,
                  !.restoredAtGate = hist.restored]
    /\ UNCHANGED <<flag, env, storage, heap, hist, svc, tasks, consumed, now, conc>>

\* wrapper, line 19, the right operand: os.getenv('TEST_MODE') is called and
\* compared, the flag having been read false.  Another thread may have run
\* since the flag was read.
WrapperGateEnv ==
    /\ call.pc = "gateenv"
    /\ call' = [call EXCEPT
                  !.pc = IF BypassActive(FALSE, env) THEN "capture" ELSE "recheck",
                  !.path = IF BypassActive(FALSE, env) THEN "bypass" ELSE "broker",
                  !.bypassAtGate = (@ \/ env = "True")]
    /\ UNCHANGED <<flag, env, storage, heap, hist, svc, tasks, consumed, now, conc>>

\* wrapper, lines 20-31: the bypass path.  With an EventType member and a
\* dict nothing in lines 22-31 raises (store_test_event logs and appends to a
\* list), so the except clause of lines 32-34 is not entered.
WrapperCapture ==
    /\ call.pc = "capture"
    /\ \E st \in Styles :
         LET args == ArgsOf(st, call.kind, call.obj)
             kwargs == KwargsOf(st, call.kind, call.obj)
             entries == CaptureEntries(ExtractEventType(args, kwargs),
                                       ExtractPayload(args, kwargs), heap)
         IN /\ storage' = IF entries = <<>>
                           THEN storage
                           ELSE StoreTestEvent(storage, entries[1][1],
                                               entries[1][2])
            /\ call' = Finish([call EXCEPT !.style = st,
                                           !.appended = @ + Len(entries)],
                              "True", storage', heap)
    /\ UNCHANGED <<flag, env, heap, hist, svc, tasks, consumed, now, conc>>

\* publish_event, lines 48-54: the re-check of the flag
PublishRecheck ==
    /\ call.pc = "recheck"
    /\ call' = IF RecheckRaises(flag)
               THEN Finish([call EXCEPT !.flagAtRecheck = hist.flagNow],
                           ExceptionOutcome(call.path), storage, heap)
               ELSE [call EXCEPT !.pc = "stamp", !.flagAtRecheck = hist.flagNow]
    /\ UNCHANGED <<flag, env, storage, heap, hist, svc, tasks, consumed, now, conc>>

\* (variant: the dict is replaced by one that holds the timestamp only)
Stamped_Replaces(d, t) == [k \in {"timestamp"} |-> t]

\* (variant: payload.setdefault('timestamp', ...))
Stamped_SetDefault(d, t) ==
    IF "timestamp" \in DOMAIN d THEN d ELSE SetItem(d, "timestamp", t)

\* publish_event, line 56
Stamped(d, t) == SetItem(d, "timestamp", t)

\* publish_event, lines 56-57: the timestamp is written into the caller's
\* dict and producer.send(event_type.value, payload) is invoked
PublishSend ==
    /\ call.pc = "stamp"
    /\ \E t \in Clock :
         /\ heap' = [heap EXCEPT ![call.obj] = Stamped(heap[call.obj], t)]
         /\ call' = [call EXCEPT !.pc = "insend", !.sends = @ + 1,
                                 !.stamp = t, !.sent = heap'[call.obj],
                                 !.topic = EventTypeValue(call.kind),
                                 !.bypassAtSend = (hist.flagNow \/ env = "True")]
    /\ UNCHANGED <<flag, env, storage, hist, svc, tasks, consumed, now, conc>>

\* A producer handed in by the caller (or patched in): its send either
\* accepts the message or raises.  publish_event, lines 58-59 on acceptance;
\* wrapper, lines 39-42 on an exception.
SubstitutedSend ==
    /\ call.pc = "insend"
    /\ \/ call' = Finish([call EXCEPT !.producer = "substituted",
                                       !.accepted = TRUE],
                         "True", storage, heap)
       \/ call' = Finish([call EXCEPT !.producer = "substituted",
                                       !.sendRaised = TRUE],
                         ExceptionOutcome(call.path), storage, heap)
    /\ UNCHANGED <<flag, env, storage, heap, hist, svc, tasks, consumed, now, conc>>

\* MockProducer.send, lines 75-79: the flag is read, and the send raises
\* when it is set
MockProducerSend ==
    /\ call.pc = "insend"
    /\ call' = IF MockSendRaises(flag)
               THEN Finish([call EXCEPT !.producer = "default",
                                        !.flagAtSend = hist.flagNow,
                                        !.sendRaised = TRUE],
                           ExceptionOutcome(call.path), storage, heap)
               ELSE [call EXCEPT !.pc = "instore",
                                 !.producer = "default",
                                 !.flagAtSend = hist.flagNow]
    /\ UNCHANGED <<flag, env, storage, heap, hist, svc, tasks, consumed, now, conc>>

\* MockProducer.send, lines 81-83, the flag having been read false:
\* EventType(topic) raises ValueError when no member has that value, else
\* the event is appended to the buffer and True returned (publish_event,
\* lines 58-59, then returns True).  Another thread may have run since the
\* flag was read.
MockProducerStore ==
    /\ call.pc = "instore"
    /\ IF ~IsEventTypeValue(call.topic)
       THEN /\ call' = Finish([call EXCEPT !.sendRaised = TRUE],
                              IF call.path = "direct" THEN "ValueError"
                              ELSE ExceptionOutcome(call.path),
                              storage, heap)
            /\ UNCHANGED storage
       ELSE /\ storage' = StoreTestEvent(storage, call.topic, call.obj)
            /\ call' = Finish([call EXCEPT !.accepted = TRUE,
                                           !.appended = @ + 1],
                              "True", storage', heap)
    /\ UNCHANGED <<flag, env, heap, hist, svc, tasks, consumed, now, conc>>

\* await _producer.send(topic, value), called directly and not through
\* publish_event: lines 75-79, the flag is read and the send raises
\* ConnectionError when it is set; MockProducerStore is the rest.
MockProducerSendDirect(topic, o) ==
    LET entered == [IdleCall EXCEPT !.obj = o, !.passed = heap[o],
                                    !.topic = topic, !.path = "direct",
                                    !.producer = "default",
                                    !.flagAtSend = hist.flagNow,
                                    !.sends = 1]
    IN /\ call.pc \in {"idle", "done"}
       /\ Len(storage) < MaxStored
       /\ call' = IF MockSendRaises(flag)
                  THEN Finish([entered EXCEPT !.sendRaised = TRUE],
                              "ConnectionError", storage, heap)
                  ELSE [entered EXCEPT !.pc = "instore"]
       /\ UNCHANGED <<flag, env, storage, heap, hist, svc, tasks, consumed, now, conc>>

----------------------------------------------------------------------------
(* Several publish_event calls in flight: tasks of one event loop, or
   threads.  The wrapper's bypass path has no await, and list.append is one
   step of the interpreter, so the calls differ only in the order of their
   steps. *)

\* The callers that publish at the same time, one call each.
CallerIds == {"p1", "p2", "p3"}

IdleCaller == [pc |-> "idle", kind |-> None, obj |-> None, ret |-> "none",
               appended |-> 0]

\* No call made yet, nothing read yet.
IdleConc == [calls |-> [c \in CallerIds |-> IdleCaller], reads |-> <<>>]

\* caller c enters await publish_event(member, payload)
ConcCall(c, k, o) ==
    /\ conc.calls[c].pc = "idle"
    /\ conc' = [conc EXCEPT !.calls[c] =
                   [IdleCaller EXCEPT !.pc = "gate", !.kind = k, !.obj = o]]
    /\ UNCHANGED <<flag, env, storage, heap, call, hist, svc, tasks, consumed, now>>

\* wrapper, line 19, for caller c: the flag is read
ConcGateFlag(c) ==
    /\ conc.calls[c].pc = "gate"
    /\ conc' = [conc EXCEPT !.calls[c].pc = IF flag THEN "capture" ELSE "gateenv"]
    /\ UNCHANGED <<flag, env, storage, heap, call, hist, svc, tasks, consumed, now>>

\* wrapper, line 19, for caller c: TEST_MODE is read, and the gate is found
\* active
ConcGateEnv(c) ==
    /\ conc.calls[c].pc = "gateenv"
    /\ BypassActive(FALSE, env)
    /\ conc' = [conc EXCEPT !.calls[c].pc = "capture"]
    /\ UNCHANGED <<flag, env, storage, heap, call, hist, svc, tasks, consumed, now>>

\* wrapper, lines 20-31, for caller c
ConcCapture(c) ==
    /\ conc.calls[c].pc = "capture"
    /\ \E st \in Styles :
         LET me == conc.calls[c]
             args == ArgsOf(st, me.kind, me.obj)
             kwargs == KwargsOf(st, me.kind, me.obj)
             entries == CaptureEntries(ExtractEventType(args, kwargs),
                                       ExtractPayload(args, kwargs), heap)
         IN /\ storage' = IF entries = <<>>
                           THEN storage
                           ELSE StoreTestEvent(storage, entries[1][1],
                                               entries[1][2])
            /\ conc' = [conc EXCEPT !.calls[c].pc = "done",
                                    !.calls[c].ret = "True",
                                    !.calls[c].appended = Len(entries)]
    /\ UNCHANGED <<flag, env, heap, call, hist, svc, tasks, consumed, now>>

\* What a reader keeps of its calls: what get_stored_test_events() gave it
\* (the entries, each a (topic, dict object) pair), what
\* get_last_stored_event() gave it (<<>> for None), and which of the two it
\* has called.  The two are separate calls, made in either order, and other
\* callers may run between them.
NoRead == [events |-> <<>>, last |-> <<>>, called |-> {}]

\* The reads after one more call of the getter named which has returned
\* value: it goes into the reader's open record if that lacks this getter,
\* else it opens a new record.
AfterRead(reads, which, value) ==
    LET n == Len(reads)
        entry(r) == IF which = "events"
                    THEN [r EXCEPT !.events = value, !.called = @ \cup {which}]
                    ELSE [r EXCEPT !.last = value, !.called = @ \cup {which}]
    IN IF n > 0 /\ which \notin reads[n].called
       THEN [reads EXCEPT ![n] = entry(@)]
       ELSE Append(reads, entry(NoRead))

\* whether one more call of the getter named which may be recorded
CanRead(reads, which) ==
    \/ Len(reads) < MaxReads
    \/ Len(reads) > 0 /\ which \notin reads[Len(reads)].called

\* a reader calls get_stored_test_events(), lines 20-22
ConcReadEvents ==
    /\ CanRead(conc.reads, "events")
    /\ conc' = [conc EXCEPT !.reads = AfterRead(@, "events", storage)]
    /\ UNCHANGED <<flag, env, storage, heap, call, hist, svc, tasks, consumed, now>>

\* a reader calls get_last_stored_event(), lines 29-33
ConcReadLast ==
    /\ CanRead(conc.reads, "last")
    /\ conc' = [conc EXCEPT !.reads =
                   AfterRead(@, "last", IF Len(storage) > 0
                                        THEN <<storage[Len(storage)]>>
                                        ELSE <<>>)]
    /\ UNCHANGED <<flag, env, storage, heap, call, hist, svc, tasks, consumed, now>>

----------------------------------------------------------------------------
(* The gate's setters and the buffer's clear *)

\* What has been asked of set_kafka_unavailable so far: the value last asked
\* for, and whether a True has since been followed by a False.
HistAfterSet(h, unavailable) ==
    [flagNow |-> unavailable,
     restored |-> h.restored \/ (h.flagNow /\ ~unavailable)]

\* set_kafka_unavailable(unavailable)
SetKafkaUnavailable(unavailable) ==
    /\ flag' = FlagAfterSet(flag, unavailable)
    /\ hist' = HistAfterSet(hist, unavailable)
    /\ UNCHANGED <<env, storage, heap, call, svc, tasks, consumed, now, conc>>

\* os.environ['TEST_MODE'] = v, or del os.environ['TEST_MODE']
SetTestMode(v) ==
    /\ env' = v
    /\ UNCHANGED <<flag, storage, heap, call, hist, svc, tasks, consumed, now, conc>>

\* clear_stored_test_events()
ClearStoredTestEvents ==
    /\ storage' = <<>>
    /\ UNCHANGED <<flag, env, heap, call, hist, svc, tasks, consumed, now, conc>>

----------------------------------------------------------------------------

(* EmailService: email_service.py *)

\* A user entity; reading any attribute of NoUser raises (a None, a detached
\* instance).  user.id is a UUID, turned into text by str() and by f-strings.
NoUser == [missing |-> TRUE]

Users ==
    {[id |-> [uuid |-> "u1"], email |-> "a@b.com", first_name |-> "A",
      verification_token |-> "tok", is_professional |-> TRUE],
     [id |-> [uuid |-> "u2"], email |-> "c@d.com", first_name |-> "C",
      verification_token |-> "kot", is_professional |-> FALSE],
     NoUser}

UserReadable(u) == u # NoUser

\* str(user.id)
Str(id) == id.uuid

\* UserRole members handed to send_role_upgrade_notification; new_role.name
NewRoles == {"ADMIN", "MANAGER"}

\* settings.server_base_url
ServerBaseUrl == "http://localhost"

\* What the name publish_event is bound to in email_service when the
\* operation runs: the decorated coroutine function imported on line 6, or a
\* stand-in (a patch) that returns True, returns False or raises.
Bindings == {"real", "stubTrue", "stubFalse", "stubRaise"}

\* publish_event(kind, user_data) as written on lines 49, 77, 107, 133, 158:
\* a plain call, not awaited.  Calling the async wrapper only creates a
\* coroutine object; its body (the gate, the capture, the send) is not run.
PublishCall(binding) ==
    CASE binding = "real" -> [raised |-> FALSE, value |-> "coroutine"]
      [] binding = "stubTrue" -> [raised |-> FALSE, value |-> "True"]
      [] binding = "stubFalse" -> [raised |-> FALSE, value |-> "False"]
      [] binding = "stubRaise" -> [raised |-> TRUE, value |-> None]

\* if success: the truth value of what the call returned
Truthy(value) == value \in {"True", "coroutine"}

\* What a piece of the service did: whether it raised, the publish calls it
\* made, the fallback invocations, the renders and the transport sends it
\* attempted, in order.
NoEffect ==
    [raised |-> FALSE, value |-> None, publishes |-> <<>>,
     fallbacks |-> <<>>, renders |-> <<>>, sends |-> <<>>]

\* first, then second unless first raised
Then(first, second) ==
    IF first.raised
    THEN first
    ELSE [raised |-> second.raised,
          value |-> second.value,
          publishes |-> first.publishes \o second.publishes,
          fallbacks |-> first.fallbacks \o second.fallbacks,
          renders |-> first.renders \o second.renders,
          sends |-> first.sends \o second.sends]

\* try: body / except Exception: handler
TryExcept(body, handler) ==
    IF body.raised
    THEN Then([body EXCEPT !.raised = FALSE], handler)
    ELSE body

Raise == [NoEffect EXCEPT !.raised = TRUE]

\* the user_data dict literal of each operation
UserData(op, u, role) ==
    LET base == [id |-> Str(u.id), email |-> u.email, first_name |-> u.first_name]
    IN CASE op = "send_verification_email" ->
              [id |-> base.id, email |-> base.email, first_name |-> base.first_name,
               verification_token |-> u.verification_token]
         [] op = "send_role_upgrade_notification" ->
              [id |-> base.id, email |-> base.email, first_name |-> base.first_name,
               new_role |-> role]
         [] op = "send_professional_status_notification" ->
              [id |-> base.id, email |-> base.email, first_name |-> base.first_name,
               is_professional |-> u.is_professional]
         [] OTHER -> base

\* the module constants event_types.EMAIL_VERIFICATION ... (lines 16-20): the
\* topic strings, which is what the service passes as the kind
KindArgument(op) ==
    CASE op = "send_verification_email" -> "email_verification"
      [] op = "send_account_locked_notification" -> "account_locked"
      [] op = "send_account_unlocked_notification" -> "account_unlocked"
      [] op = "send_role_upgrade_notification" -> "role_upgrade"
      [] op = "send_professional_status_notification" -> "professional_status_upgrade"

\* lines 41-49 (and the same lines of the other operations): build the
\* payload, call publish_event, keep what it returned
BuildAndPublish(op, u, role, binding) ==
    IF ~UserReadable(u)
    THEN Raise
    ELSE LET r == PublishCall(binding)
         IN [NoEffect EXCEPT !.raised = r.raised, !.value = r.value,
                             !.publishes = <<(<<KindArgument(op), UserData(op, u, role)>>)>>]

\* (variant: the fallback's link goes to another path)
VerificationUrl_OtherPath(u) ==
    <<ServerBaseUrl, "verify", Str(u.id), u.verification_token>>

\* f"{settings.server_base_url}/verify-email/{user.id}/{user.verification_token}",
\* as its path segments
VerificationUrl(u) ==
    <<ServerBaseUrl, "verify-email", Str(u.id), u.verification_token>>

\* render_template(name, **context) then send_email(subject, html, to):
\* fb.render and fb.send say whether each succeeds this time
RenderAndSend(template, context, subject, to, fb) ==
    [NoEffect EXCEPT
       !.raised = ~fb.render \/ ~fb.send,
       !.renders = <<(<<template, context>>)>>,
       !.sends = IF fb.render THEN <<(<<subject, to>>)>> ELSE <<>>]

\* _direct_send_verification_email(user), lines 204-231
DirectSendVerificationEmail(u, fb) ==
    Then([NoEffect EXCEPT !.fallbacks = <<u>>],
         IF ~UserReadable(u)
         THEN Raise
         ELSE RenderAndSend("email_verification",
                            [name |-> u.first_name,
                             verification_url |-> VerificationUrl(u),
                             email |-> u.email],
                            "Verify Your Account", u.email, fb))

\* subject_map, lines 188-195
SubjectMap ==
    [email_verification |-> "Verify Your Account",
     password_reset |-> "Password Reset Instructions",
     account_locked |-> "Account Locked Notification",
     account_unlocked |-> "Account Unlocked Notification",
     role_upgrade |-> "Role Update Notification",
     professional_status_upgrade |-> "Professional Status Update"]

\* _direct_send_user_email(user_data, email_type), lines 170-202
DirectSendUserEmail(user_data, email_type, fb) ==
    IF email_type \notin DOMAIN SubjectMap
    THEN Raise
    ELSE RenderAndSend(email_type, user_data, SubjectMap[email_type],
                       user_data.email, fb)

FallbackOutcomes == [render : BOOLEAN, send : BOOLEAN]

\* send_verification_email, lines 39-61: fb1 and fb2 are what rendering and
\* the transport do in the first and in the second fallback invocation
SendVerificationEmailBody(u, binding, fb1, fb2) ==
    LET published == BuildAndPublish("send_verification_email", u, None, binding)
        tried == Then(published,
                      IF Truthy(published.value)
                      THEN NoEffect
                      ELSE DirectSendVerificationEmail(u, fb1))
    IN TryExcept(tried, DirectSendVerificationEmail(u, fb2))

\* (variant: the except clause invokes the fallback, as that of
\* send_verification_email does)
SendAccountLockedBody_FallbackInExcept(u, binding, fb1) ==
    LET published == BuildAndPublish("send_account_locked_notification", u, None, binding)
        direct == IF UserReadable(u)
                  THEN DirectSendUserEmail(
                           [name |-> u.first_name, email |-> u.email,
                            support_email |-> "support@example.com"],
                           "account_locked", fb1)
                  ELSE Raise
        tried == Then(published,
                      IF Truthy(published.value) THEN NoEffect ELSE direct)
    IN TryExcept(tried, TryExcept(direct, NoEffect))

\* send_account_locked_notification, lines 70-91
SendAccountLockedBody(u, binding, fb1) ==
    LET published == BuildAndPublish("send_account_locked_notification", u, None, binding)
        tried == Then(published,
                      IF Truthy(published.value)
                      THEN NoEffect
                      ELSE DirectSendUserEmail(
                               [name |-> u.first_name, email |-> u.email,
                                support_email |-> "support@example.com"],
                               "account_locked", fb1))
    IN TryExcept(tried, NoEffect)

\* (variant: these operations fall back to a direct send as well)
SendLogOnlyBody_WithFallback(op, u, role, binding) ==
    LET published == BuildAndPublish(op, u, role, binding)
        tried == Then(published,
                      IF Truthy(published.value)
                      THEN NoEffect
                      ELSE DirectSendUserEmail(
                               [name |-> u.first_name, email |-> u.email],
                               KindArgument(op), [render |-> TRUE, send |-> TRUE]))
    IN TryExcept(tried, NoEffect)

\* send_account_unlocked_notification, send_role_upgrade_notification,
\* send_professional_status_notification: lines 100-115, 125-141, 150-166
SendLogOnlyBody(op, u, role, binding) ==
    TryExcept(BuildAndPublish(op, u, role, binding), NoEffect)

\* The finished operation, as svc keeps it.
Completed(op, u, binding, effect) ==
    [op |-> op, user |-> u, binding |-> binding, env |-> env, flag |-> flag,
     outcome |-> IF effect.raised THEN "raised" ELSE "returned",
     publishes |-> effect.publishes, fallbacks |-> effect.fallbacks,
     renders |-> effect.renders, sends |-> effect.sends,
     stored |-> storage]

SendVerificationEmail(u, binding, fb1, fb2) ==
    /\ svc' = Completed("send_verification_email", u, binding,
                        SendVerificationEmailBody(u, binding, fb1, fb2))
    /\ UNCHANGED <<flag, env, storage, heap, call, hist, tasks, consumed, now, conc>>

SendAccountLockedNotification(u, binding, fb1) ==
    /\ svc' = Completed("send_account_locked_notification", u, binding,
                        SendAccountLockedBody(u, binding, fb1))
               @@ [fb |-> fb1]
    /\ UNCHANGED <<flag, env, storage, heap, call, hist, tasks, consumed, now, conc>>

SendAccountUnlockedNotification(u, binding) ==
    /\ svc' = Completed("send_account_unlocked_notification", u, binding,
                        SendLogOnlyBody("send_account_unlocked_notification",
                                        u, None, binding))
    /\ UNCHANGED <<flag, env, storage, heap, call, hist, tasks, consumed, now, conc>>

SendRoleUpgradeNotification(u, role, binding) ==
    /\ svc' = Completed("send_role_upgrade_notification", u, binding,
                        SendLogOnlyBody("send_role_upgrade_notification",
                                        u, role, binding))
    /\ UNCHANGED <<flag, env, storage, heap, call, hist, tasks, consumed, now, conc>>

SendProfessionalStatusNotification(u, binding) ==
    /\ svc' = Completed("send_professional_status_notification", u, binding,
                        SendLogOnlyBody("send_professional_status_notification",
                                        u, None, binding))
    /\ UNCHANGED <<flag, env, storage, heap, call, hist, tasks, consumed, now, conc>>

----------------------------------------------------------------------------
(* Notification executors: app/tasks/email_tasks.py *)

\* settings.email_task_retry_count, the max_retries of every executor
MaxRetries == 2

\* settings.email_task_retry_delay, in units of time
RetryDelay == 2

\* The clock stops here.
MaxTime == 4

\* The times a worker may be lost while it executes one message.
MaxLosses == 1

\* celery_app.conf, line 29: task_acks_late
TaskAcksLate == TRUE

\* celery_app.conf, line 30: task_reject_on_worker_lost
TaskRejectOnWorkerLost == TRUE

\* The task messages the worker pool can hold at once.
TaskIds == {"m1", "m2"}

Executors ==
    {"send_verification_email", "send_account_locked_email",
     "send_account_unlocked_email", "send_role_upgrade_email",
     "send_professional_status_upgrade_email"}

\* The event dicts handed to the consumers and, through them, to the
\* executors: one with every field the five kinds use, one without
\* first_name and is_professional and with a role no UserRole member has.
EventData ==
    {[id |-> "u1", email |-> "a@b.com", first_name |-> "A",
      verification_token |-> "tok", new_role |-> "MANAGER",
      is_professional |-> TRUE, timestamp |-> "t1"],
     [id |-> "u2", email |-> "c@d.com", new_role |-> "GUEST"]}

\* user_data.get(key, default)
DictGetDefault(d, key, default) == IF key \in DOMAIN d THEN d[key] ELSE default

\* the template name each executor renders
TaskTemplate(name) ==
    CASE name = "send_verification_email" -> "email_verification"
      [] name = "send_account_locked_email" -> "account_locked"
      [] name = "send_account_unlocked_email" -> "account_unlocked"
      [] name = "send_role_upgrade_email" -> "role_upgrade"
      [] name = "send_professional_status_upgrade_email" ->
             "professional_status_upgrade"

\* the subject each executor sends with
TaskSubject(name) ==
    CASE name = "send_verification_email" -> "Verify Your Account"
      [] name = "send_account_locked_email" -> "Account Locked Notification"
      [] name = "send_account_unlocked_email" -> "Account Unlocked Notification"
      [] name = "send_role_upgrade_email" -> "Role Update Notification"
      [] name = "send_professional_status_upgrade_email" ->
             "Professional Status Update"

\* (variant: ADMIN has no entry of its own)
RoleDescription_AdminGeneric(new_role) ==
    CASE new_role = "AUTHENTICATED" -> "regular authenticated user"
      [] new_role = "MANAGER" -> "manager with additional privileges"
      [] OTHER -> "user with updated permissions"

\* role_description, lines 121-125
RoleDescription(new_role) ==
    CASE new_role = "AUTHENTICATED" -> "regular authenticated user"
      [] new_role = "MANAGER" -> "manager with additional privileges"
      [] new_role = "ADMIN" -> "administrator with full system access"
      [] OTHER -> "user with updated permissions"

\* (variant: an absent is_professional gets a phrase of its own)
StatusText_ThirdPhrase(is_professional) ==
    IF is_professional = TRUE
    THEN "upgraded to professional status"
    ELSE "professional status unchanged"

\* status_text, line 156
StatusText(is_professional) ==
    IF is_professional = TRUE
    THEN "upgraded to professional status"
    ELSE "changed from professional status"

\* (variant: a context that carries the number of the attempt)
TaskContext_CountsAttempts(self, user_data) ==
    [name |-> DictGetDefault(user_data, "first_name", "User"),
     email |-> DictGet(user_data, "email"),
     attempt |-> self.retries]

\* the context dict each executor builds from user_data; self is the bound
\* task, of which the body reads nothing
TaskContext(self, user_data) ==
    LET name == DictGetDefault(user_data, "first_name", "User")
        email == DictGet(user_data, "email")
    IN CASE self.name = "send_verification_email" ->
              [name |-> name,
               verification_url |-> <<ServerBaseUrl, "verify-email",
                                      DictGet(user_data, "id"),
                                      DictGet(user_data, "verification_token")>>,
               email |-> email]
         [] self.name = "send_account_locked_email" ->
              [name |-> name, email |-> email,
               support_email |-> "support@example.com"]
         [] self.name = "send_account_unlocked_email" ->
              [name |-> name, email |-> email]
         [] self.name = "send_role_upgrade_email" ->
              [name |-> name, email |-> email,
               new_role |-> DictGet(user_data, "new_role"),
               role_description |-> RoleDescription(DictGet(user_data, "new_role"))]
         [] self.name = "send_professional_status_upgrade_email" ->
              [name |-> name, email |-> email,
               is_professional |-> DictGetDefault(user_data, "is_professional", FALSE),
               status_text |-> StatusText(
                   DictGetDefault(user_data, "is_professional", FALSE))]

\* what template_manager.render_template(template, **context) returns
Rendered(template, context) == [template |-> template, context |-> context]

\* the words each executor's message begins with
TaskSentPhrase(name) ==
    CASE name = "send_verification_email" -> "Verification email sent to"
      [] name = "send_account_locked_email" -> "Account locked email sent to"
      [] name = "send_account_unlocked_email" -> "Account unlocked email sent to"
      [] name = "send_role_upgrade_email" -> "Role upgrade email sent to"
      [] name = "send_professional_status_upgrade_email" ->
             "Professional status email sent to"

\* the dict an executor returns
SuccessResult(name, user_data) ==
    [status |-> "success",
     message |-> <<TaskSentPhrase(name), DictGet(user_data, "email")>>]

\* A task message and the progress of its current attempt.  retries is
\* request.retries; executions counts the times the body was entered;
\* renders and sends are the calls made by the attempt in progress (or the
\* last one); running counts the attempts of this message that are between
\* their start and their end.
NoTask ==
    [state |-> "NONE", name |-> None, args |-> EmptyDict, via |-> None,
     retries |-> 0, pc |-> "idle", executions |-> 0, running |-> 0,
     renders |-> <<>>, sends |-> <<>>, html |-> None,
     result |-> None, error |-> None, retried |-> 0,
     eta |-> 0, failedAt |-> 0,
     acked |-> FALSE, lost |-> 0, delivered |-> 0, seen |-> <<>>]

\* (variant: one more retry than max_retries is granted)
RetriesExhausted_OneMore(retries, max_retries) == retries > max_retries + 1

\* Task.retry: the retry message is refused once request.retries + 1 exceeds
\* max_retries
RetriesExhausted(retries, max_retries) == retries > max_retries

\* task_serializer='json' (celery_app.py line 24): the argument dict of a
\* message as it is written to the queue.  The event dicts hold strings
\* and, under is_professional, a boolean.
JsonDumps(d) ==
    [k \in DOMAIN d |->
        IF k = "is_professional"
        THEN [type |-> "bool", text |-> IF d[k] THEN "true" ELSE "false"]
        ELSE [type |-> "string", text |-> d[k]]]

\* accept_content=['json'] (line 25): the argument dict a worker reads back
JsonLoads(s) ==
    [k \in DOMAIN s |->
        IF s[k].type = "bool" THEN s[k].text = "true" ELSE s[k].text]

\* (variant: the message sent again has lost the id)
RetryArgs_WithoutId(args) ==
    JsonLoads(JsonDumps([k \in DOMAIN args \ {"id"} |-> args[k]]))

\* self.retry(...) sends the message again with the arguments of the
\* request (no args are passed to retry), serialised anew
RetryArgs(args) == JsonLoads(JsonDumps(args))

\* (variant: the verification executor retries one unit sooner)
RetryCountdown_PerExecutor(name) ==
    IF name = "send_verification_email" THEN RetryDelay - 1 ELSE RetryDelay

\* countdown=settings.email_task_retry_delay, the same expression in the
\* except clause of each of the five executors
RetryCountdown(name) == RetryDelay

\* except Exception as exc: raise self.retry(exc=exc, countdown=...): either
\* the message is sent again with retries + 1 and the attempt ends in RETRY,
\* or, the retries being used up, exc itself is raised and the task is FAILURE.
\* The message sent again carries the time before which no worker executes
\* it: the time of the retry call plus the countdown.
AfterRetry(t, exc) ==
    IF RetriesExhausted(t.retries + 1, MaxRetries)
    THEN [t EXCEPT !.state = "FAILURE", !.pc = "idle", !.error = exc,
                   !.running = @ - 1, !.acked = TRUE]
    ELSE [t EXCEPT !.state = "RETRY", !.pc = "idle", !.retries = @ + 1,
                   !.error = exc, !.running = @ - 1, !.retried = @ + 1,
                   !.failedAt = now, !.eta = now + RetryCountdown(t.name),
                   !.acked = TRUE, !.args = RetryArgs(@)]

\* (variant: a message waiting for its retry is never taken)
Startable_NoRetry(t) == t.state = "PENDING"

\* (variant: a message is taken whatever its state)
Startable_Always(t) == t.state # "NONE"

\* a worker process takes a message that is waiting: one just enqueued, or a
\* retry whose countdown is over
Startable(t) == t.state \in {"PENDING", "RETRY"}

\* (variant: the executor sends twice)
SendCalls_Twice(t) ==
    <<(<<TaskSubject(t.name), t.html, DictGet(t.args, "email")>>),
      (<<TaskSubject(t.name), t.html, DictGet(t.args, "email")>>)>>

\* smtp_client.send_email(subject, html_content, user_data.get("email"))
SendCalls(t) ==
    <<(<<TaskSubject(t.name), t.html, DictGet(t.args, "email")>>)>>

\* the message's time has come: one enqueued by delay() is due at once, a
\* retry once its countdown is over
Due(t) == t.eta <= now

\* (variant: the message is acknowledged as soon as a worker has it)
AckedOnReceipt_Early(acks_late) == TRUE

\* whether the message is acknowledged when the worker receives it, before
\* the body runs: not with task_acks_late
AckedOnReceipt(acks_late) == ~acks_late

\* the body is entered: lines 35-36 and their likes
StartAttempt(m) ==
    /\ Startable(tasks[m])
    /\ tasks' = [tasks EXCEPT ![m] =
                   [@ EXCEPT !.state = "STARTED", !.pc = "render",
                             !.executions = @ + 1, !.running = @ + 1,
                             !.renders = <<>>, !.sends = <<>>,
                             !.html = None, !.result = None,
                             !.acked = AckedOnReceipt(TaskAcksLate),
                             !.seen = Append(@, tasks[m].args)]]
    /\ UNCHANGED <<flag, env, storage, heap, call, hist, svc, consumed, now, conc>>

\* (variant: the send is made although the render raised)
Render_SendsAnyway(m, ok) ==
    LET t == tasks[m]
        self == [name |-> t.name, retries |-> t.retries]
        context == TaskContext(self, t.args)
        tried == [t EXCEPT !.renders = Append(@, <<TaskTemplate(t.name), context>>)]
    IN /\ t.state = "STARTED"
       /\ t.pc = "render"
       /\ tasks' = [tasks EXCEPT ![m] =
                      IF ok
                      THEN [tried EXCEPT !.pc = "send",
                                         !.html = Rendered(TaskTemplate(t.name), context)]
                      ELSE AfterRetry([tried EXCEPT !.sends = @ \o SendCalls(tried)],
                                      "render failed")]
       /\ UNCHANGED <<flag, env, storage, heap, call, hist, svc, consumed, now, conc>>

\* the context is built and the template rendered (lines 37-45), or the
\* rendering raises and the except clause runs (lines 51-54)
Render(m, ok) ==
    LET t == tasks[m]
        self == [name |-> t.name, retries |-> t.retries]
        context == TaskContext(self, t.args)
        tried == [t EXCEPT !.renders = Append(@, <<TaskTemplate(t.name), context>>)]
    IN /\ t.state = "STARTED"
       /\ t.pc = "render"
       /\ tasks' = [tasks EXCEPT ![m] =
                      IF ok
                      THEN [tried EXCEPT !.pc = "send",
                                         !.html = Rendered(TaskTemplate(t.name), context)]
                      ELSE AfterRetry(tried, "render failed")]
       /\ UNCHANGED <<flag, env, storage, heap, call, hist, svc, consumed, now, conc>>

\* (variant: something after the send raises, and the attempt is retried)
Send_RetriedAfterDelivery(m, ok) ==
    LET t == tasks[m]
        tried == [t EXCEPT !.sends = @ \o SendCalls(t)]
    IN /\ t.state = "STARTED"
       /\ t.pc = "send"
       /\ tasks' = [tasks EXCEPT ![m] =
                      IF ok
                      THEN AfterRetry([tried EXCEPT !.delivered = @ + 1],
                                      "send failed")
                      ELSE AfterRetry(tried, "send failed")]
       /\ UNCHANGED <<flag, env, storage, heap, call, hist, svc, consumed, now, conc>>

\* the mail is handed to the transport and the result returned (lines
\* 46-49), or the transport raises and the except clause runs
Send(m, ok) ==
    LET t == tasks[m]
        tried == [t EXCEPT !.sends = @ \o SendCalls(t)]
    IN /\ t.state = "STARTED"
       /\ t.pc = "send"
       /\ tasks' = [tasks EXCEPT ![m] =
                      IF ok
                      THEN [tried EXCEPT !.state = "SUCCESS", !.pc = "idle",
                                         !.running = @ - 1,
                                         !.result = SuccessResult(t.name, t.args),
                                         !.delivered = @ + 1,
                                         !.acked = TRUE]
                      ELSE AfterRetry(tried, "send failed")]
       /\ UNCHANGED <<flag, env, storage, heap, call, hist, svc, consumed, now, conc>>

\* What becomes of a message whose worker is lost while the body runs: a
\* message not yet acknowledged is put back in the queue when
\* task_reject_on_worker_lost is set and waits there with the retry counter
\* it had; an acknowledged one, or one rejected without requeue, is gone.
AfterWorkerLost(t) ==
    IF ~t.acked /\ TaskRejectOnWorkerLost
    THEN [t EXCEPT !.state = "PENDING", !.pc = "idle", !.running = @ - 1,
                   !.lost = @ + 1]
    ELSE [t EXCEPT !.state = "LOST", !.pc = "idle", !.running = @ - 1,
                   !.lost = @ + 1]

\* the worker executing message m is lost before the call the body was
\* about to make
WorkerLost(m) ==
    /\ tasks[m].state = "STARTED"
    /\ tasks[m].lost < MaxLosses
    /\ tasks' = [tasks EXCEPT ![m] = AfterWorkerLost(tasks[m])]
    /\ UNCHANGED <<flag, env, storage, heap, call, hist, svc, consumed, now, conc>>

\* the transport has taken the mail (line 46) and the worker is lost before
\* the body returns
WorkerLostAfterSend(m) ==
    LET t == tasks[m]
        tried == [t EXCEPT !.sends = @ \o SendCalls(t), !.delivered = @ + 1]
    IN /\ t.state = "STARTED"
       /\ t.pc = "send"
       /\ t.lost < MaxLosses
       /\ tasks' = [tasks EXCEPT ![m] = AfterWorkerLost(tried)]
       /\ UNCHANGED <<flag, env, storage, heap, call, hist, svc, consumed, now, conc>>

----------------------------------------------------------------------------
(* Task dispatcher: app/tasks/consumers.py *)

\* EVENT_CONSUMERS, lines 78-84: topic string -> consumer task
EVENT_CONSUMERS ==
    [email_verification |-> "process_email_verification",
     account_locked |-> "process_account_locked",
     account_unlocked |-> "process_account_unlocked",
     role_upgrade |-> "process_role_upgrade",
     professional_status_upgrade |-> "process_professional_status_upgrade"]

\* (variant: the role-upgrade consumer enqueues the unlocked executor)
ConsumerTarget_Crossed(consumer) ==
    CASE consumer = "process_email_verification" -> "send_verification_email"
      [] consumer = "process_account_locked" -> "send_account_locked_email"
      [] consumer = "process_account_unlocked" -> "send_account_unlocked_email"
      [] consumer = "process_role_upgrade" -> "send_account_unlocked_email"
      [] consumer = "process_professional_status_upgrade" ->
             "send_professional_status_upgrade_email"

\* the executor whose .delay each consumer calls
ConsumerTarget(consumer) ==
    CASE consumer = "process_email_verification" -> "send_verification_email"
      [] consumer = "process_account_locked" -> "send_account_locked_email"
      [] consumer = "process_account_unlocked" -> "send_account_unlocked_email"
      [] consumer = "process_role_upgrade" -> "send_role_upgrade_email"
      [] consumer = "process_professional_status_upgrade" ->
             "send_professional_status_upgrade_email"

Consumers == {EVENT_CONSUMERS[topic] : topic \in DOMAIN EVENT_CONSUMERS}

\* (variant: the executor's body is entered by the consumer itself)
DelayedMessage_Eager(consumer, event_data) ==
    [NoTask EXCEPT !.state = "STARTED", !.pc = "render",
                   !.executions = 1, !.running = 1,
                   !.name = ConsumerTarget(consumer),
                   !.args = event_data,
                   !.via = consumer]

\* send_*_email.delay(event_data): a message for the executor, with the
\* event dict as its only argument, is put in the queue; nothing of the
\* executor has run when delay returns its handle
DelayedMessage(consumer, event_data) ==
    [NoTask EXCEPT !.state = "PENDING",
                   !.name = ConsumerTarget(consumer),
                   !.args = JsonLoads(JsonDumps(event_data)),
                   !.via = consumer]

\* process_*(event_data): logs and returns send_*_email.delay(event_data);
\* the new message waits in the queue under a fresh id
Consume(consumer, event_data) ==
    /\ \E m \in TaskIds :
         /\ tasks[m].state = "NONE"
         /\ tasks' = [tasks EXCEPT ![m] = DelayedMessage(consumer, event_data)]
         /\ consumed' = Append(consumed, [consumer |-> consumer,
                                          event_data |-> event_data,
                                          enqueued |-> m])
    /\ UNCHANGED <<flag, env, storage, heap, call, hist, svc, now, conc>>

----------------------------------------------------------------------------

IdleSvc == [op |-> None]

Init ==
    /\ flag = FALSE
    /\ env \in EnvValues
    /\ storage = <<>>
    /\ heap \in [Objects -> InitialPayloads]
    /\ call = IdleCall
    /\ hist = [flagNow |-> FALSE, restored |-> FALSE]
    /\ svc = IdleSvc
    /\ tasks = [m \in TaskIds |-> NoTask]
    /\ consumed = <<>>
    /\ now = 0
    /\ conc = IdleConc

Next ==
    \/ \E k \in EventTypes, o \in Objects : Call(k, o)
    \/ WrapperGateFlag
    \/ WrapperGateEnv
    \/ WrapperCapture
    \/ PublishRecheck
    \/ PublishSend
    \/ SubstitutedSend
    \/ MockProducerSend
    \/ MockProducerStore
    \/ \E b \in BOOLEAN : SetKafkaUnavailable(b)
    \/ \E v \in EnvValues : SetTestMode(v)
    \/ ClearStoredTestEvents

Spec == Init /\ [][Next]_vars

\* The default producer used on its own.
NextProducer ==
    \/ \E topic \in Topics, o \in Objects : MockProducerSendDirect(topic, o)
    \/ MockProducerStore
    \/ \E b \in BOOLEAN : SetKafkaUnavailable(b)
    \/ ClearStoredTestEvents

SpecProducer == Init /\ [][NextProducer]_vars

\* Concurrent callers in bypass mode (TEST_MODE is 'True' throughout), with
\* readers of the buffer and no clear.
NextConcurrent ==
    \/ \E c \in CallerIds, k \in EventTypes, o \in Objects : ConcCall(c, k, o)
    \/ \E c \in CallerIds : ConcGateFlag(c)
    \/ \E c \in CallerIds : ConcGateEnv(c)
    \/ \E c \in CallerIds : ConcCapture(c)
    \/ ConcReadEvents
    \/ ConcReadLast

InitConcurrent ==
    /\ Init
    /\ env = "True"

SpecConcurrent == InitConcurrent /\ [][NextConcurrent]_vars

\* The body of publish_event without its wrapper.
NextUndecorated ==
    \/ \E k \in EventTypes, o \in Objects : CallUndecorated(k, o)
    \/ PublishRecheck
    \/ PublishSend
    \/ SubstitutedSend
    \/ MockProducerSend
    \/ MockProducerStore
    \/ \E b \in BOOLEAN : SetKafkaUnavailable(b)

SpecUndecorated == Init /\ [][NextUndecorated]_vars

\* The EmailService operations, under every state of the gate.
NextService ==
    \/ \E u \in Users, b \in Bindings, fb1 \in FallbackOutcomes, fb2 \in FallbackOutcomes :
         SendVerificationEmail(u, b, fb1, fb2)
    \/ \E u \in Users, b \in Bindings, fb1 \in FallbackOutcomes :
         SendAccountLockedNotification(u, b, fb1)
    \/ \E u \in Users, b \in Bindings : SendAccountUnlockedNotification(u, b)
    \/ \E u \in Users, r \in NewRoles, b \in Bindings :
         SendRoleUpgradeNotification(u, r, b)
    \/ \E u \in Users, b \in Bindings : SendProfessionalStatusNotification(u, b)
    \/ \E b \in BOOLEAN : SetKafkaUnavailable(b)
    \/ \E v \in EnvValues : SetTestMode(v)

\* No publish_event call is made directly here, so one payload dict will do.
InitService ==
    /\ Init
    /\ heap = [o \in Objects |-> EmptyDict]

SpecService == InitService /\ [][NextService]_vars

\* The worker pool: consumers are invoked with an event, executors run their
\* attempts; the steps of different messages interleave.
NextWorker ==
    \/ \E c \in Consumers, d \in EventData : Consume(c, d)
    \/ \E m \in TaskIds : StartAttempt(m)
    \/ \E m \in TaskIds, ok \in BOOLEAN : Render(m, ok)
    \/ \E m \in TaskIds, ok \in BOOLEAN : Send(m, ok)

InitWorker ==
    /\ Init
    /\ env = "unset"
    /\ heap = [o \in Objects |-> EmptyDict]

SpecWorker == InitWorker /\ [][NextWorker]_vars

\* A worker process that has a message to take, or a body to go on with,
\* does so; nothing obliges anyone to invoke a consumer.
WorkerFairness ==
    \A m \in TaskIds :
        /\ WF_vars(StartAttempt(m))
        /\ WF_vars(\E ok \in BOOLEAN : Render(m, ok))
        /\ WF_vars(\E ok \in BOOLEAN : Send(m, ok))

SpecWorkerFair == SpecWorker /\ WorkerFairness

\* The whole flow with the broker reachable (flag never set, TEST_MODE
\* unset): events are published through the default producer, and consumers
\* are invoked by whoever calls them.  Nothing in the repository reads what MockProducer.send has
\* accepted (register_kafka_consumers is empty, worker.py registers the tasks
\* and stops), so no step leads from the buffer to a consumer.
NextPipeline ==
    \/ \E k \in EventTypes, o \in Objects : Call(k, o)
    \/ WrapperGateFlag
    \/ WrapperGateEnv
    \/ PublishRecheck
    \/ PublishSend
    \/ MockProducerSend
    \/ MockProducerStore
    \/ \E c \in Consumers, d \in EventData : Consume(c, d)

\* A publish_event call that has been entered runs to its end; new calls
\* and consumer invocations come from outside.
PipelineFairness ==
    /\ WF_vars(WrapperGateFlag)
    /\ WF_vars(WrapperGateEnv)
    /\ WF_vars(PublishRecheck)
    /\ WF_vars(PublishSend)
    /\ WF_vars(MockProducerSend)
    /\ WF_vars(MockProducerStore)

SpecPipeline == InitWorker /\ [][NextPipeline]_vars /\ PipelineFairness

\* Time passes.
Tick ==
    /\ now < MaxTime
    /\ now' = now + 1
    /\ UNCHANGED <<flag, env, storage, heap, call, hist, svc, tasks, consumed, conc>>

\* A worker takes a message no earlier than the message's time.
StartAttemptWhenDue(m) ==
    /\ Due(tasks[m])
    /\ StartAttempt(m)

\* The event dict the timed worker pool is fed with.
TimedData == {[id |-> "u2", email |-> "c@d.com", new_role |-> "GUEST"]}

\* The worker pool with its clock: SpecWorker lets a retry be taken at any
\* later step, here the time until then is counted.
NextTimed ==
    \/ \E c \in Consumers, d \in TimedData : Consume(c, d)
    \/ \E m \in TaskIds : StartAttemptWhenDue(m)
    \/ \E m \in TaskIds, ok \in BOOLEAN : Render(m, ok)
    \/ \E m \in TaskIds, ok \in BOOLEAN : Send(m, ok)
    \/ Tick

SpecTimed == InitWorker /\ [][NextTimed]_vars

\* The consumer that feeds the pool whose workers may be lost; what happens
\* on a loss is configured for all tasks alike.
LossyConsumers == {"process_email_verification"}

\* The worker pool with workers that may be lost while they execute.
NextLossy ==
    \/ \E c \in LossyConsumers, d \in TimedData : Consume(c, d)
    \/ \E m \in TaskIds : StartAttempt(m)
    \/ \E m \in TaskIds, ok \in BOOLEAN : Render(m, ok)
    \/ \E m \in TaskIds, ok \in BOOLEAN : Send(m, ok)
    \/ \E m \in TaskIds : WorkerLost(m)
    \/ \E m \in TaskIds : WorkerLostAfterSend(m)

\* As WorkerFairness: a worker that is there goes on; being lost is not
\* something that has to happen.
SpecLossy == InitWorker /\ [][NextLossy]_vars /\ WorkerFairness

\* The same pool fed by all five consumers.
NextLossyAll ==
    \/ \E c \in Consumers, d \in TimedData : Consume(c, d)
    \/ \E m \in TaskIds : StartAttempt(m)
    \/ \E m \in TaskIds, ok \in BOOLEAN : Render(m, ok)
    \/ \E m \in TaskIds, ok \in BOOLEAN : Send(m, ok)
    \/ \E m \in TaskIds : WorkerLost(m)
    \/ \E m \in TaskIds : WorkerLostAfterSend(m)

SpecLossyAll == InitWorker /\ [][NextLossyAll]_vars /\ WorkerFairness

\* The values new_role takes in the event dicts of role upgrades: the three
\* names the executor has a description for, a name it has none for, and a
\* known name in another case.
RoleValues == {"AUTHENTICATED", "MANAGER", "ADMIN", "ANONYMOUS", "manager"}

\* Event dicts of role upgrades and of professional-status changes, with and
\* without the field the executor's phrase depends on.
ContextData ==
    {[email |-> "a@b.com", new_role |-> r] : r \in RoleValues}
      \cup {[email |-> "a@b.com", is_professional |-> b] : b \in BOOLEAN}
      \cup {[email |-> "a@b.com"]}

ContextConsumers ==
    {"process_role_upgrade", "process_professional_status_upgrade"}

\* The two executors whose context carries a derived phrase, fed with every
\* event dict of ContextData.
NextContexts ==
    \/ \E c \in ContextConsumers, d \in ContextData : Consume(c, d)
    \/ \E m \in TaskIds : StartAttempt(m)
    \/ \E m \in TaskIds, ok \in BOOLEAN : Render(m, ok)
    \/ \E m \in TaskIds, ok \in BOOLEAN : Send(m, ok)

SpecContexts == InitWorker /\ [][NextContexts]_vars

----------------------------------------------------------------------------
(* Properties of publish_event, checked under Spec *)

Done == call.pc = "done"

\* C1: publish_event never lets an exception reach its caller: whatever the
\* kind, the payload, the gate and the producer do, a finished call has
\* returned a boolean.
C1_PublishNeverRaises ==
    Done => call.ret \in {"True", "False"}

\* C1 witness: the producer's send raised and the call still returned.
C1_Witness ==
    Done /\ call.sendRaised /\ call.ret = "True"

\* C2: a call whose gate evaluation finds bypass active invokes no send,
\* returns true, and right after it the buffer's last entry is
\* (kind identifier, payload passed).
C2_BypassCaptures ==
    (Done /\ call.bypassAtGate) =>
        /\ call.sends = 0
        /\ call.ret = "True"
        /\ call.last = <<(<<EventTypeValue(call.kind), call.passed>>)>>

\* C3: bypass inactive and the producer's send raises: the call returns
\* true, send was attempted exactly once, nothing was appended to the buffer.
C3_SendFailureIsSoftSuccess ==
    (Done /\ ~call.bypassAtGate /\ call.sendRaised) =>
        /\ call.ret = "True"
        /\ call.sends = 1
        /\ call.appended = 0

\* C3 witness: the default producer raised on a call that had passed the gate.
C3_Witness ==
    Done /\ ~call.bypassAtGate /\ call.sendRaised /\ call.producer = "default"

\* C4: bypass inactive and the producer accepts: the call returns true, send
\* was invoked exactly once, the payload handed to the producer and the
\* caller's dict afterwards carry the timestamp the sink assigned (in place
\* of any value the caller supplied), and with a substituted producer nothing
\* was appended to the buffer.
C4_AcceptedIsStamped ==
    (Done /\ call.accepted) =>
        /\ call.ret = "True"
        /\ call.sends = 1
        /\ call.stamp \in Clock
        /\ "timestamp" \in DOMAIN call.sent
        /\ call.sent.timestamp = call.stamp
        /\ heap[call.obj] = call.sent
        /\ (call.producer = "substituted" => call.appended = 0)

\* C4 witness: a substituted producer accepted a payload that came with a
\* timestamp of the caller's.
C4_Witness ==
    /\ Done /\ call.accepted /\ call.producer = "substituted"
    /\ "timestamp" \in DOMAIN call.passed
    /\ call.passed.timestamp = "caller"
    /\ call.kind = "PROFESSIONAL_STATUS_UPGRADE"

\* C5 (as claimed): no send is initiated while the flag is true or test mode
\* is active, under every interleaving of the setters with a call in flight.
C5_NoSendWhileBypass ==
    call.sends > 0 => ~call.bypassAtSend

\* C5 (amended): no send is initiated by a call whose gate evaluation found
\* bypass active or whose re-check found the flag true.
C5_NoSendAfterFailedCheck ==
    call.sends > 0 => (~call.bypassAtGate /\ ~call.flagAtRecheck)

\* C5 witness: a send initiated by a call that passed both checks, at a
\* moment when bypass had become active.
C5_Witness ==
    call.sends > 0 /\ call.bypassAtSend /\ ~call.bypassAtGate

\* C6: the path of a call is decided by the flag and TEST_MODE as they are
\* when the call reads them (the flag, and then TEST_MODE when the flag was
\* read false), whatever was set before: bypass exactly when one of the
\* gate's two reads finds bypass active; and a call that finds the flag
\* false and TEST_MODE not 'True' takes the broker path (send invoked once,
\* timestamp injected, no capture by the wrapper), also after the flag has
\* been set and reset.
C6_GateHasNoMemory ==
    Done =>
        /\ (call.path = "bypass") <=> call.bypassAtGate
        /\ (~call.bypassAtGate /\ ~call.flagAtRecheck) =>
              /\ call.path = "broker"
              /\ call.sends = 1
              /\ "timestamp" \in DOMAIN call.sent
              /\ call.style = None

\* C6 witness: a broker-path call made after set(true) then set(false).
C6_Witness ==
    /\ Done /\ call.restoredAtGate /\ call.path = "broker"
    /\ call.sends = 1 /\ call.accepted

----------------------------------------------------------------------------
(* Properties of EmailService, checked under SpecService *)

UrlContains(url, part) == \E i \in DOMAIN url : url[i] = part

\* C7: send_verification_email calls publish exactly once, and when publish
\* yields false the direct-send fallback is invoked exactly once for that
\* user, with a URL holding the user's id and verification token.
C7_FallbackExactlyOnce ==
    (svc.op = "send_verification_email" /\ UserReadable(svc.user)) =>
        /\ Len(svc.publishes) = 1
        /\ svc.binding = "stubFalse" =>
              /\ svc.fallbacks = <<svc.user>>
              /\ Len(svc.renders) = 1
              /\ UrlContains(svc.renders[1][2].verification_url, Str(svc.user.id))
              /\ UrlContains(svc.renders[1][2].verification_url,
                             svc.user.verification_token)

\* C8: none of the five operations lets an exception reach its caller.
C8_ServiceNeverRaises ==
    svc.op # None => svc.outcome = "returned"

\* C9: with TEST_MODE 'True', once send_verification_email has returned the
\* buffer's last entry is ("email_verification", payload) with the user's
\* email.
C9_ServicePublishIsCaptured ==
    (/\ svc.op = "send_verification_email"
     /\ svc.binding = "real"
     /\ svc.env = "True"
     /\ UserReadable(svc.user)) =>
        LET last == LastStoredEvent(svc.stored, heap)
        IN /\ last # <<>>
           /\ last[1][1] = "email_verification"
           /\ "email" \in DOMAIN last[1][2]
           /\ last[1][2].email = svc.user.email

\* C10: for EmailVerification and AccountLocked a notification is never
\* silently lost: after the operation the broker has accepted the event, or
\* the buffer holds it, or a direct send to the user was attempted.
C10_NeverSilentlyLost ==
    (/\ svc.op \in {"send_verification_email", "send_account_locked_notification"}
     /\ svc.binding = "real"
     /\ UserReadable(svc.user)) =>
        \/ call.accepted
        \/ \E i \in DOMAIN svc.stored : svc.stored[i][1] = KindArgument(svc.op)
        \/ \E i \in DOMAIN svc.sends : svc.sends[i][2] = svc.user.email

----------------------------------------------------------------------------
(* Properties of the executors, checked under SpecWorker and SpecWorkerFair;
   the bound on executions under SpecLossyAll *)

Terminal(t) == t.state \in {"SUCCESS", "FAILURE"}

\* the failure of the attempt that ended last, read off the calls it made
LastFailure(t) == IF t.sends # <<>> THEN "send failed" ELSE "render failed"

\* C11 (amended): for every executor and every message the body is entered
\* at most max_retries + 1 times plus once for every loss of the worker that
\* was executing it (a message whose worker was never lost: at most
\* max_retries + 1 times), and at most max_retries retries are scheduled,
\* losses or not; a message whose attempts all failed is in FAILURE with the
\* last attempt's failure as its error; a message in FAILURE is never
\* touched again; and every message enqueued comes to SUCCESS or FAILURE.
C11_RetriesBoundedButForLosses ==
    /\ [](\A m \in TaskIds :
            LET t == tasks[m]
            IN /\ t.executions <= MaxRetries + 1 + t.lost
               /\ t.executions = t.retries + 1 + t.lost
                     \/ t.state \in {"NONE", "PENDING", "RETRY"}
               /\ t.retries <= MaxRetries
               /\ t.retried <= MaxRetries
               /\ (t.executions = MaxRetries + 1 + t.lost
                      /\ t.state \notin {"STARTED", "SUCCESS"})
                     => t.state = "FAILURE"
               /\ t.state = "FAILURE" =>
                     /\ t.executions = MaxRetries + 1 + t.lost
                     /\ t.retries = MaxRetries
                     /\ t.error = LastFailure(t)
                     /\ t.pc = "idle")
    /\ [][\A m \in TaskIds :
             tasks[m].state = "FAILURE" => tasks'[m] = tasks[m]]_vars
    /\ \A m \in TaskIds :
          (tasks[m].state = "PENDING") ~> Terminal(tasks[m])

\* C11 (as claimed): for every executor and every message the body is entered at most
\* max_retries + 1 times and at most max_retries retries are scheduled; a
\* message all of whose attempts failed is in FAILURE with the last
\* attempt's failure as its error; a message in FAILURE is never touched
\* again; and every message enqueued comes to SUCCESS or FAILURE.
C11_RetriesBounded ==
    /\ [](\A m \in TaskIds :
            LET t == tasks[m]
            IN /\ t.executions <= MaxRetries + 1
               /\ t.retried <= MaxRetries
               /\ (t.executions = MaxRetries + 1 /\ t.state \notin {"STARTED", "SUCCESS"})
                     => t.state = "FAILURE"
               /\ t.state = "FAILURE" =>
                     /\ t.executions = MaxRetries + 1
                     /\ t.error = LastFailure(t)
                     /\ t.pc = "idle")
    /\ [][\A m \in TaskIds :
             tasks[m].state = "FAILURE" => tasks'[m] = tasks[m]]_vars
    /\ \A m \in TaskIds :
          (tasks[m].state = "PENDING") ~> Terminal(tasks[m])

\* C11 witness: a message all of whose attempts failed, the last one in the
\* transport, and whose worker was lost once on the way, so that its body
\* was entered max_retries + 2 times; another message, of another executor,
\* was retried once, lost no worker and succeeded.
C11_Witness ==
    /\ tasks["m1"].state = "FAILURE"
    /\ tasks["m1"].name = "send_role_upgrade_email"
    /\ tasks["m1"].lost = 1
    /\ tasks["m1"].executions = MaxRetries + 2
    /\ tasks["m1"].retried = MaxRetries
    /\ tasks["m1"].error = "send failed"
    /\ tasks["m2"].state = "SUCCESS"
    /\ tasks["m2"].name = "send_account_locked_email"
    /\ tasks["m2"].retries = 1
    /\ tasks["m2"].lost = 0
    /\ tasks["m2"].executions = 2

\* C12: for each of the five executors, an attempt in which rendering and
\* the transport both succeed has rendered once, the template of the kind
\* its consumer serves, and sent once, with that kind's subject, the
\* rendered body and the payload's email; the result's status is 'success',
\* the task is in SUCCESS, and nothing is scheduled for it afterwards.
C12_SuccessfulAttempt ==
    /\ [](\A m \in TaskIds :
            LET t == tasks[m]
            IN t.state = "SUCCESS" =>
                 /\ Len(t.renders) = 1
                 /\ EVENT_CONSUMERS[t.renders[1][1]] = t.via
                 /\ Len(t.sends) = 1
                 /\ t.sends[1][1] = SubjectMap[t.renders[1][1]]
                 /\ t.sends[1][2] = Rendered(t.renders[1][1], t.renders[1][2])
                 /\ t.sends[1][3] = DictGet(t.args, "email")
                 /\ t.result.status = "success"
                 /\ t.pc = "idle"
                 /\ t.retried = t.retries)
    /\ [][\A m \in TaskIds :
             tasks[m].state = "SUCCESS" => tasks'[m] = tasks[m]]_vars

\* C12 witness: the role-upgrade executor succeeded at the first attempt on
\* a payload whose role is no UserRole member, and the account-locked
\* executor succeeded too.
C12_Witness ==
    /\ tasks["m1"].state = "SUCCESS"
    /\ tasks["m1"].name = "send_role_upgrade_email"
    /\ tasks["m1"].retries = 0
    /\ tasks["m1"].renders[1][2].role_description = "user with updated permissions"
    /\ tasks["m2"].state = "SUCCESS"
    /\ tasks["m2"].name = "send_account_locked_email"

\* C13: for any message at most one attempt is executing at a time, the
\* body has been entered once per value of the retry counter, and an
\* attempt after the first starts only from a message that is waiting for
\* its retry because the attempt before it failed.
C13_AttemptsSequential ==
    /\ [](\A m \in TaskIds :
            LET t == tasks[m]
            IN /\ t.running <= 1
               /\ (t.running = 1) <=> (t.state = "STARTED")
               /\ t.state \in {"STARTED", "SUCCESS", "FAILURE"} =>
                     t.executions = t.retries + 1
               /\ t.state = "RETRY" => t.executions = t.retries)
    /\ [][\A m \in TaskIds :
             tasks'[m].executions > tasks[m].executions =>
                 /\ tasks[m].running = 0
                 /\ tasks'[m].executions = tasks[m].executions + 1
                 /\ tasks[m].executions > 0 =>
                       /\ tasks[m].state = "RETRY"
                       /\ tasks[m].error \in {"render failed", "send failed"}]_vars

\* C13 witness: two messages executing at once, one of them in its third
\* attempt.
C13_Witness ==
    /\ tasks["m1"].state = "STARTED"
    /\ tasks["m1"].executions = 3
    /\ tasks["m2"].state = "STARTED"
    /\ tasks["m2"].pc = "send"

\* how the attempt that ended last went
AttemptOutcome(t) == IF t.state = "SUCCESS" THEN "success" ELSE t.error

\* C14: executors carry nothing from one attempt to the next: two ended
\* attempts of the same executor on the same payload that went the same way
\* (both succeeded, or both failed in the same call) made the same render
\* call and the same send call and, on success, returned the same result
\* with status 'success', whatever the number of failed attempts before
\* each of them.
C14_AttemptsStateless ==
    \A m \in TaskIds, n \in TaskIds :
        LET t == tasks[m]
            u == tasks[n]
        IN (/\ t.state \in {"SUCCESS", "RETRY", "FAILURE"}
            /\ u.state \in {"SUCCESS", "RETRY", "FAILURE"}
            /\ t.name = u.name
            /\ t.args = u.args
            /\ AttemptOutcome(t) = AttemptOutcome(u)) =>
               /\ t.renders = u.renders
               /\ t.sends = u.sends
               /\ t.state = "SUCCESS" =>
                     /\ t.result = u.result
                     /\ t.result.status = "success"

\* C14 witness: the same executor on the same payload succeeded at once for
\* one message and after two failed attempts for the other.
C14_Witness ==
    /\ tasks["m1"].state = "SUCCESS"
    /\ tasks["m2"].state = "SUCCESS"
    /\ tasks["m1"].name = "send_verification_email"
    /\ tasks["m2"].name = "send_verification_email"
    /\ tasks["m1"].args = tasks["m2"].args
    /\ tasks["m1"].retries = 0
    /\ tasks["m2"].retries = 2

----------------------------------------------------------------------------
(* Further properties of EmailService, checked under SpecService *)

\* C15: send_account_locked_notification with publish yielding false makes
\* the direct send exactly once: one render of 'account_locked' with the
\* context name / email / support_email of the user and, the rendering done,
\* one transport send with subject 'Account Locked Notification' to the
\* user's email; with publish yielding true it renders and sends nothing.
C15_LockedFallbackOnce ==
    (svc.op = "send_account_locked_notification" /\ UserReadable(svc.user)) =>
        /\ svc.binding = "stubFalse" =>
              /\ svc.renders =
                    <<(<<"account_locked",
                         [name |-> svc.user.first_name, email |-> svc.user.email,
                          support_email |-> "support@example.com"]>>)>>
              /\ svc.sends =
                    IF svc.fb.render
                    THEN <<(<<"Account Locked Notification", svc.user.email>>)>>
                    ELSE <<>>
        /\ svc.binding \in {"stubTrue", "real"} =>
              /\ svc.renders = <<>>
              /\ svc.sends = <<>>

\* C15 witness: publish yielded false and the one direct send went through;
\* the transport was handed the mail once.
C15_Witness ==
    /\ svc.op = "send_account_locked_notification"
    /\ svc.binding = "stubFalse"
    /\ UserReadable(svc.user)
    /\ svc.fb.render /\ svc.fb.send
    /\ Len(svc.sends) = 1

LogOnlyOperations ==
    {"send_account_unlocked_notification", "send_role_upgrade_notification",
     "send_professional_status_notification"}

\* C16: the AccountUnlocked, RoleUpgrade and ProfessionalStatusUpgrade
\* operations never render and never hand anything to the transport, and
\* invoke no fallback, whatever publish returns or raises and whatever the
\* user is; they make at most the one publish call.
C16_NoFallbackForLogOnly ==
    svc.op \in LogOnlyOperations =>
        /\ svc.renders = <<>>
        /\ svc.sends = <<>>
        /\ svc.fallbacks = <<>>
        /\ Len(svc.publishes) <= 1

\* C16 witness: the role-upgrade operation ran with publish yielding false.
C16_Witness ==
    /\ svc.op = "send_role_upgrade_notification"
    /\ svc.binding = "stubFalse"
    /\ UserReadable(svc.user)
    /\ Len(svc.publishes) = 1

\* the EventType member of each operation's kind
KindMember(op) ==
    CASE op = "send_verification_email" -> "EMAIL_VERIFICATION"
      [] op = "send_account_locked_notification" -> "ACCOUNT_LOCKED"
      [] op = "send_account_unlocked_notification" -> "ACCOUNT_UNLOCKED"
      [] op = "send_role_upgrade_notification" -> "ROLE_UPGRADE"
      [] op = "send_professional_status_notification" -> "PROFESSIONAL_STATUS_UPGRADE"

\* the fields each kind's payload must hold
RequiredFields(op) ==
    {"id", "email", "first_name"} \cup
    (CASE op = "send_verification_email" -> {"verification_token"}
       [] op = "send_role_upgrade_notification" -> {"new_role"}
       [] op = "send_professional_status_notification" -> {"is_professional"}
       [] OTHER -> {})

\* C17: each operation calls publish exactly once, with the EventType member
\* of its own kind and a payload holding exactly that kind's fields, taken
\* from the user: id as a string, email, first_name, and verification_token,
\* new_role (the role's name) or is_professional.
C17_PublishesOwnKindMember ==
    (svc.op # None /\ UserReadable(svc.user)) =>
        /\ Len(svc.publishes) = 1
        /\ svc.publishes[1][1] \in EventTypes
        /\ svc.publishes[1][1] = KindMember(svc.op)
        /\ LET payload == svc.publishes[1][2]
           IN /\ DOMAIN payload = RequiredFields(svc.op)
              /\ payload.id = Str(svc.user.id)
              /\ payload.email = svc.user.email
              /\ payload.first_name = svc.user.first_name
              /\ svc.op = "send_verification_email" =>
                    payload.verification_token = svc.user.verification_token
              /\ svc.op = "send_role_upgrade_notification" =>
                    payload.new_role \in NewRoles
              /\ svc.op = "send_professional_status_notification" =>
                    payload.is_professional = svc.user.is_professional

----------------------------------------------------------------------------
(* Topics, checked under Spec *)

\* the member's name in lower case
LowerCase(member) ==
    CASE member = "EMAIL_VERIFICATION" -> "email_verification"
      [] member = "ACCOUNT_LOCKED" -> "account_locked"
      [] member = "ACCOUNT_UNLOCKED" -> "account_unlocked"
      [] member = "ROLE_UPGRADE" -> "role_upgrade"
      [] member = "PROFESSIONAL_STATUS_UPGRADE" -> "professional_status_upgrade"

\* C18: on the broker path the topic handed to the producer's send is the
\* string identifier of the call's kind (the default producer files the
\* event under that topic), the five kinds have five different topics, and
\* each of them has its consumer in EVENT_CONSUMERS.
C18_TopicIsKindIdentifier ==
    /\ call.sends > 0 =>
          /\ call.topic = LowerCase(call.kind)
          /\ call.topic \in DOMAIN EVENT_CONSUMERS
          /\ (Done /\ call.accepted /\ call.producer = "default") =>
                call.last[1][1] = LowerCase(call.kind)
    /\ \A k1 \in EventTypes, k2 \in EventTypes :
          k1 # k2 => EventTypeValue(k1) # EventTypeValue(k2)
    /\ Cardinality({EventTypeValue(k) : k \in EventTypes}) = Cardinality(EventTypes)

\* C18 witness: the default producer accepted an ACCOUNT_UNLOCKED event and
\* filed it under account_unlocked, after an ACCOUNT_LOCKED event.
C18_Witness ==
    /\ Done /\ call.accepted /\ call.producer = "default"
    /\ call.kind = "ACCOUNT_UNLOCKED"
    /\ call.topic = "account_unlocked"
    /\ Len(storage) = 2
    /\ storage[1][1] = "account_locked"
    /\ storage[2][1] = "account_unlocked"

----------------------------------------------------------------------------
(* Properties of the dispatcher, checked under SpecWorker and SpecPipeline *)

Enqueued == {m \in TaskIds : tasks[m].state # "NONE"}

\* C19: EVENT_CONSUMERS has exactly the five kinds' identifiers as keys and
\* five different consumers as values, the consumers enqueue five different
\* executors, and every consumer invocation has enqueued exactly one task:
\* that of the executor rendering the template of the consumer's kind, with
\* the event data it was given.
C19_DispatchOneToOne ==
    /\ DOMAIN EVENT_CONSUMERS = {EventTypeValue(k) : k \in EventTypes}
    /\ \A a \in DOMAIN EVENT_CONSUMERS, b \in DOMAIN EVENT_CONSUMERS :
          a # b =>
             /\ EVENT_CONSUMERS[a] # EVENT_CONSUMERS[b]
             /\ ConsumerTarget(EVENT_CONSUMERS[a]) # ConsumerTarget(EVENT_CONSUMERS[b])
    /\ Cardinality(Enqueued) = Len(consumed)
    /\ \A i \in DOMAIN consumed :
          LET c == consumed[i]
              t == tasks[c.enqueued]
          IN /\ c.enqueued \in Enqueued
             /\ \A j \in DOMAIN consumed : j # i => consumed[j].enqueued # c.enqueued
             /\ t.name \in Executors
             /\ EVENT_CONSUMERS[TaskTemplate(t.name)] = c.consumer
             /\ t.args = c.event_data

\* C19 witness: the role-upgrade consumer and the professional-status
\* consumer have each been invoked once, with different events.
C19_Witness ==
    /\ Len(consumed) = 2
    /\ consumed[1].consumer = "process_role_upgrade"
    /\ consumed[2].consumer = "process_professional_status_upgrade"
    /\ consumed[1].event_data # consumed[2].event_data
    /\ tasks[consumed[1].enqueued].name = "send_role_upgrade_email"
    /\ tasks[consumed[2].enqueued].name = "send_professional_status_upgrade_email"

\* the executor serving a kind
ExecutorOfKind(k) == ConsumerTarget(EVENT_CONSUMERS[EventTypeValue(k)])

\* C20: every event of which publish_event was relieved by the broker
\* (bypass inactive, send accepted) is eventually dispatched: a task of the
\* executor of its kind is enqueued.
C20_AcceptedIsDispatched ==
    \A k \in EventTypes :
        (Done /\ call.accepted /\ call.kind = k)
            ~> (\E m \in TaskIds :
                   /\ tasks[m].state # "NONE"
                   /\ tasks[m].name = ExecutorOfKind(k))

----------------------------------------------------------------------------
(* Further properties of publish_event, checked under Spec *)

\* C21: on the bypass path the boolean returned tells whether the event was
\* captured: True exactly when the call appended its (kind, payload) to the
\* buffer (one entry more), False exactly when the capture raised (which,
\* with an EventType member and a dict, it never does), for every payload,
\* the empty dict included, and every way of passing the two arguments.
C21_BypassReturnReflectsCapture ==
    (Done /\ call.path = "bypass") =>
        /\ call.ret \in {"True", "False"}
        /\ (call.ret = "True") <=> (call.appended = 1)
        /\ (call.ret = "False") => (call.appended = 0)
        /\ call.appended = 1 =>
              call.last = <<(<<EventTypeValue(call.kind), call.passed>>)>>

----------------------------------------------------------------------------
(* The undecorated publish path, checked under SpecUndecorated *)

\* C22: called without the availability wrapper, publish_event returns
\* False when the producer's send raises, having attempted the send once.
C22_UndecoratedSendFailureIsFalse ==
    (Done /\ call.path = "undecorated" /\ call.sendRaised) =>
        /\ call.ret = "False"
        /\ call.sends = 1

----------------------------------------------------------------------------
(* The derived phrases of the render contexts, checked under SpecContexts *)

\* C23: the role_description the role-upgrade executor puts into its render
\* context is 'regular authenticated user' for new_role AUTHENTICATED,
\* 'manager with additional privileges' for MANAGER, 'administrator with
\* full system access' for ADMIN and 'user with updated permissions' for
\* every other new_role and for an event dict without new_role.
C23_RoleDescription ==
    \A m \in TaskIds :
        (tasks[m].name = "send_role_upgrade_email" /\ tasks[m].renders # <<>>) =>
            LET args == tasks[m].args
                desc == tasks[m].renders[1][2].role_description
                role == IF "new_role" \in DOMAIN args THEN args.new_role
                                                      ELSE "(missing)"
            IN /\ role = "AUTHENTICATED" => desc = "regular authenticated user"
               /\ role = "MANAGER" => desc = "manager with additional privileges"
               /\ role = "ADMIN" => desc = "administrator with full system access"
               /\ role \notin {"AUTHENTICATED", "MANAGER", "ADMIN"} =>
                      desc = "user with updated permissions"

C23_Witness ==
    /\ tasks["m1"].name = "send_role_upgrade_email"
    /\ tasks["m1"].args = [email |-> "a@b.com", new_role |-> "ADMIN"]
    /\ tasks["m1"].state = "SUCCESS"
    /\ tasks["m1"].renders[1][2].role_description =
           "administrator with full system access"
    /\ tasks["m2"].name = "send_role_upgrade_email"
    /\ tasks["m2"].args = [email |-> "a@b.com"]
    /\ tasks["m2"].state = "SUCCESS"
    /\ tasks["m2"].renders[1][2].role_description =
           "user with updated permissions"

\* C24: the status_text the professional-status executor puts into its
\* render context is 'upgraded to professional status' when the event dict's
\* is_professional is true and 'changed from professional status' when it is
\* false or absent; it is never anything else.
C24_StatusText ==
    \A m \in TaskIds :
        (tasks[m].name = "send_professional_status_upgrade_email"
           /\ tasks[m].renders # <<>>) =>
            LET args == tasks[m].args
                text == tasks[m].renders[1][2].status_text
            IN /\ text \in {"upgraded to professional status",
                            "changed from professional status"}
               /\ (text = "upgraded to professional status") <=>
                      ("is_professional" \in DOMAIN args /\ args.is_professional)

C24_Witness ==
    /\ tasks["m1"].name = "send_professional_status_upgrade_email"
    /\ tasks["m1"].args = [email |-> "a@b.com"]
    /\ tasks["m1"].state = "SUCCESS"
    /\ tasks["m1"].renders[1][2].status_text = "changed from professional status"
    /\ tasks["m2"].name = "send_professional_status_upgrade_email"
    /\ tasks["m2"].args = [email |-> "a@b.com", is_professional |-> TRUE]
    /\ tasks["m2"].state = "SUCCESS"
    /\ tasks["m2"].renders[1][2].status_text = "upgraded to professional status"

----------------------------------------------------------------------------
(* The capture buffer as a log, checked under Spec *)

\* C25: the capture buffer is an insertion-ordered log.  Every step leaves
\* it alone, empties it (clear), or puts exactly one entry, that of the
\* call in progress, after all the entries it had, so that between clears an
\* earlier content is a prefix of a later one; get_last_stored_event() is
\* None exactly when get_stored_test_events() is empty and is otherwise its
\* final element.
C25_BufferIsOrderedLog ==
    /\ [](LET events == GetStoredTestEvents(storage, heap)
              last == LastStoredEvent(storage, heap)
          IN /\ (last = <<>>) <=> (events = <<>>)
             /\ events # <<>> => last = <<events[Len(events)]>>)
    /\ [][\/ storage' = storage
          \/ storage' = <<>>
          \/ /\ call.pc \in {"capture", "instore"}
             /\ storage' = Append(storage, <<LowerCase(call.kind), call.obj>>)]_vars

C25_Witness ==
    /\ Done
    /\ call.appended = 1
    /\ Len(storage) = 2
    /\ storage[1][1] # storage[2][1]
    /\ storage[2] = <<LowerCase(call.kind), call.obj>>
    /\ LastStoredEvent(storage, heap) = <<(<<storage[2][1], heap[storage[2][2]]>>)>>

----------------------------------------------------------------------------
(* The caller's payload dict, checked under Spec *)

\* the keys of d other than 'timestamp' are in e with the values they have
\* in d, and e has no key besides those of d and 'timestamp'
SameButTimestamp(d, e) ==
    /\ \A k \in DOMAIN d \ {"timestamp"} : k \in DOMAIN e /\ e[k] = d[k]
    /\ DOMAIN e \subseteq DOMAIN d \cup {"timestamp"}

\* C29: publish_event changes nothing in the caller's payload dict other
\* than the 'timestamp' key.  On the broker path every other key keeps its
\* value and no key is removed, also when the send then fails; on the bypass
\* path the dict is left exactly as it was passed, with no timestamp added.
C29_OnlyTimestampChanges ==
    /\ [](Done =>
            /\ SameButTimestamp(call.passed, heap[call.obj])
            /\ call.path = "bypass" => heap[call.obj] = call.passed
            /\ call.sends > 0 => SameButTimestamp(call.passed, call.sent))
    /\ [][/\ \A o \in Objects : SameButTimestamp(heap[o], heap'[o])
          /\ call.pc = "capture" => heap' = heap]_vars

\* C29 witness: a payload with a key of its own went the broker path, the
\* send raised, and the dict holds the key with the timestamp beside it.
C29_Witness ==
    /\ Done
    /\ call.path = "broker"
    /\ call.sendRaised
    /\ call.passed = [email |-> "a@b.com"]
    /\ DOMAIN heap[call.obj] = {"email", "timestamp"}
    /\ heap[call.obj].email = "a@b.com"

\* C30: every entry of the capture buffer whose payload has no 'timestamp'
\* key (such entries come from the bypass path only: the broker path stamps
\* before it sends) still has none after any later step, as long as the
\* entry is in the buffer.
C30_CapturedPayloadStaysUnstamped ==
    [][\A i \in 1..Len(storage) :
          (/\ i <= Len(storage')
           /\ storage'[i] = storage[i]
           /\ "timestamp" \notin DOMAIN heap[storage[i][2]])
              => "timestamp" \notin DOMAIN heap'[storage'[i][2]]]_vars

----------------------------------------------------------------------------
(* Termination and the order of the calls of an attempt, checked under
   SpecWorkerFair and SpecWorker *)

\* C26: with workers that go on with what they have (and are not lost), a
\* message that is waiting, executing or waiting for a retry comes to
\* SUCCESS or FAILURE whatever the renders and sends do, so it is never in
\* RETRY or STARTED for ever; and a message in SUCCESS or FAILURE stays in
\* that state.
C26_TasksTerminate ==
    /\ \A m \in TaskIds :
          (tasks[m].state \in {"PENDING", "STARTED", "RETRY"})
              ~> Terminal(tasks[m])
    /\ [][\A m \in TaskIds :
             Terminal(tasks[m]) => tasks'[m].state = tasks[m].state]_vars

\* C26 witness: one message succeeded in the last attempt it had, after
\* failures of both kinds were possible; the other failed for good with the
\* template.
C26_Witness ==
    /\ tasks["m1"].state = "SUCCESS"
    /\ tasks["m1"].retries = MaxRetries
    /\ tasks["m2"].state = "FAILURE"
    /\ tasks["m2"].error = "render failed"
    /\ tasks["m2"].executions = MaxRetries + 1

\* C27: within one attempt render precedes send.  The calls of the attempt
\* in progress (or of the last one) show a send only after exactly one
\* render, whose result is the body sent; the send is made only by a body
\* that has its rendered text; and a body whose render raises ends the
\* attempt there, with no send, as a failure that is either retried (retry
\* counter one higher) or, the retries being used up, final.
C27_RenderBeforeSend ==
    /\ [](\A m \in TaskIds :
            LET t == tasks[m]
            IN /\ (t.state \in {"RETRY", "FAILURE"} /\ t.error = "render failed") =>
                     /\ Len(t.renders) = 1
                     /\ t.sends = <<>>
               /\ t.sends # <<>> =>
                     /\ Len(t.renders) = 1
                     /\ \A i \in 1..Len(t.sends) :
                           t.sends[i][2] = Rendered(t.renders[1][1], t.renders[1][2]))
    /\ [][\A m \in TaskIds :
             LET t == tasks[m]
                 u == tasks'[m]
             IN /\ Len(u.sends) > Len(t.sends) =>
                      /\ t.pc = "send"
                      /\ Len(t.renders) = 1
                      /\ t.html = Rendered(t.renders[1][1], t.renders[1][2])
                /\ (t.pc = "render" /\ u.pc # "render") =>
                      \/ /\ u.pc = "send"
                         /\ u.html = Rendered(u.renders[1][1], u.renders[1][2])
                         /\ u.sends = <<>>
                      \/ /\ u.pc = "idle"
                         /\ u.sends = <<>>
                         /\ u.error = "render failed"
                         /\ \/ u.state = "RETRY" /\ u.retries = t.retries + 1
                            \/ u.state = "FAILURE" /\ t.retries = MaxRetries]_vars

\* C27 witness: one message's attempt ended in the render, with no send,
\* and is to be retried; the other's second attempt has rendered and is
\* about to send.
C27_Witness ==
    /\ tasks["m1"].state = "RETRY"
    /\ tasks["m1"].error = "render failed"
    /\ tasks["m1"].sends = <<>>
    /\ Len(tasks["m1"].renders) = 1
    /\ tasks["m2"].state = "STARTED"
    /\ Len(tasks["m2"].sends) = 0
    /\ tasks["m2"].pc = "send"
    /\ tasks["m2"].retries = 1

----------------------------------------------------------------------------
(* The delay of retries, checked under SpecTimed *)

\* C28: a retry attempt of a message never starts earlier than the retry
\* delay after the failure of the attempt before it: the message sent again
\* is due at the time of the failure plus email_task_retry_delay, and that
\* one delay is used by every executor for every retry.
C28_RetryAfterDelay ==
    /\ [](\A m \in TaskIds :
            tasks[m].state = "RETRY" =>
                /\ tasks[m].eta = tasks[m].failedAt + RetryDelay
                /\ tasks[m].failedAt <= now)
    /\ [][\A m \in TaskIds :
             /\ (tasks[m].state = "RETRY" /\ tasks'[m].state = "STARTED") =>
                    now' >= tasks[m].failedAt + RetryDelay
             /\ (tasks[m].state = "STARTED" /\ tasks'[m].state = "RETRY") =>
                    /\ tasks'[m].failedAt = now
                    /\ tasks'[m].eta = now + RetryDelay]_vars

\* C28 witness: the verification executor is in its third attempt, started
\* just when the second retry fell due, while another executor's message
\* waits for its retry.
C28_Witness ==
    /\ tasks["m1"].name = "send_verification_email"
    /\ tasks["m1"].state = "STARTED"
    /\ tasks["m1"].executions = 3
    /\ tasks["m1"].eta = now
    /\ tasks["m2"].name = "send_role_upgrade_email"
    /\ tasks["m2"].state = "RETRY"
    /\ tasks["m2"].eta > now

----------------------------------------------------------------------------
(* The default producer called directly, checked under SpecProducer *)

\* C31 (as claimed): MockProducer.send appends (topic, value) to the capture
\* buffer and returns true when the forced-unavailable flag is false, and
\* raises a connection error, appending nothing, when the flag is true.
C31_DefaultProducerSend ==
    (Done /\ call.path = "direct") =>
        /\ ~call.flagAtSend =>
              /\ call.ret = "True"
              /\ call.appended = 1
              /\ call.last = <<(<<call.topic, call.passed>>)>>
        /\ call.flagAtSend =>
              /\ call.ret = "ConnectionError"
              /\ call.appended = 0

\* C31 (amended): the same, for a topic that is the identifier of one of the
\* five kinds; with the flag false and any other topic the send raises
\* ValueError and appends nothing.
C31_DefaultProducerSendOfKind ==
    (Done /\ call.path = "direct") =>
        /\ (~call.flagAtSend /\ call.topic \in {LowerCase(k) : k \in EventTypes}) =>
              /\ call.ret = "True"
              /\ call.appended = 1
              /\ call.last = <<(<<call.topic, call.passed>>)>>
        /\ (~call.flagAtSend /\ call.topic \notin {LowerCase(k) : k \in EventTypes}) =>
              /\ call.ret = "ValueError"
              /\ call.appended = 0
        /\ call.flagAtSend =>
              /\ call.ret = "ConnectionError"
              /\ call.appended = 0

\* C31 witness: a direct send refused because of the flag, with an entry of
\* an earlier direct send still the only one in the buffer.
C31_Witness ==
    /\ Done
    /\ call.path = "direct"
    /\ call.flagAtSend
    /\ call.ret = "ConnectionError"
    /\ Len(storage) = 1
    /\ storage[1][1] = "role_upgrade"

----------------------------------------------------------------------------
(* Concurrent captures, checked under SpecConcurrent *)

\* s is an initial part of t
IsPrefix(s, t) == Len(s) <= Len(t) /\ \A i \in 1..Len(s) : s[i] = t[i]

\* the number of places of s that hold e
Occurrences(s, e) == Cardinality({i \in 1..Len(s) : s[i] = e})

AllReturned == \A c \in CallerIds : conc.calls[c].pc = "done"

\* C32: when the concurrent publish_event calls made in bypass mode have all
\* returned, the capture buffer holds exactly one entry per call (as many
\* entries (topic, payload) as there were calls with that kind and payload,
\* and no others), and everything a reader saw meanwhile is an initial part
\* of that final sequence: what get_stored_test_events() returned is one, and
\* what get_last_stored_event() returned is the last entry of one (None of
\* the empty one).
C32_ConcurrentCapturesAllKept ==
    AllReturned =>
        /\ Len(storage) = Cardinality(CallerIds)
        /\ \A k \in EventTypes, o \in Objects :
              Occurrences(storage, <<LowerCase(k), o>>) =
                  Cardinality({c \in CallerIds : /\ conc.calls[c].kind = k
                                                 /\ conc.calls[c].obj = o})
        /\ \A i \in 1..Len(conc.reads) :
              /\ "events" \in conc.reads[i].called =>
                     IsPrefix(conc.reads[i].events, storage)
              /\ "last" \in conc.reads[i].called =>
                     \/ conc.reads[i].last = <<>>
                     \/ \E j \in 1..Len(storage) :
                           conc.reads[i].last = <<storage[j]>>

\* The same for calls whose payload dict is not empty.
C32_NonEmptyPayloadsAllKept ==
    (\A o \in Objects : heap[o] # EmptyDict) => C32_ConcurrentCapturesAllKept

----------------------------------------------------------------------------
(* Worker loss, checked under SpecLossy *)

\* C33: a message is acknowledged only once its execution has finished, so
\* a worker lost while an attempt is executing leaves the message to be
\* delivered and executed again: the message is never gone, every message
\* enqueued comes to SUCCESS or FAILURE (a worker being lost at most
\* MaxLosses times over it), and the price is at most one more delivered
\* mail per loss.
C33_LateAckRedelivers ==
    /\ [](\A m \in TaskIds :
            LET t == tasks[m]
            IN /\ t.state # "LOST"
               /\ t.acked => t.state \in {"SUCCESS", "RETRY", "FAILURE"}
               /\ t.state = "STARTED" => ~t.acked
               /\ t.delivered <= t.lost + 1)
    /\ [][\A m \in TaskIds :
             tasks'[m].lost > tasks[m].lost =>
                 /\ tasks'[m].state = "PENDING"
                 /\ tasks'[m].retries = tasks[m].retries
                 /\ tasks'[m].args = tasks[m].args
                 /\ tasks'[m].name = tasks[m].name
                 /\ Startable(tasks'[m])]_vars
    /\ \A m \in TaskIds :
          (tasks[m].state = "PENDING") ~> Terminal(tasks[m])

\* C33 witness: a worker was lost after the transport had taken the mail,
\* the message was executed again and succeeded, so two mails were
\* delivered for it; the other message failed for good after a loss.
C33_Witness ==
    /\ tasks["m1"].state = "SUCCESS"
    /\ tasks["m1"].lost = 1
    /\ tasks["m1"].delivered = 2
    /\ tasks["m1"].executions = 2
    /\ tasks["m2"].state = "FAILURE"
    /\ tasks["m2"].lost = 1

----------------------------------------------------------------------------
(* The dispatcher and its executors, checked under SpecWorker *)

\* C34: the dispatcher is fire-and-forget.  A consumer is finished in the
\* step that enqueues its executor's message: at that moment the message
\* waits in the queue and no attempt of it has started; and whatever the
\* executor does later (failure, retry, exhaustion), the record of the
\* consumer's invocation and of what it returned stays as it was.
C34_ConsumerFireAndForget ==
    /\ [][Len(consumed') > Len(consumed) =>
             LET c == consumed'[Len(consumed')]
             IN /\ Len(consumed') = Len(consumed) + 1
                /\ tasks[c.enqueued].state = "NONE"
                /\ tasks'[c.enqueued].state = "PENDING"
                /\ tasks'[c.enqueued].executions = 0
                /\ tasks'[c.enqueued].renders = <<>>
                /\ \A m \in TaskIds \ {c.enqueued} : tasks'[m] = tasks[m]]_vars
    /\ [][\A i \in DOMAIN consumed :
             /\ i \in DOMAIN consumed'
             /\ consumed'[i] = consumed[i]]_vars

\* C34 witness: two consumers have long returned; the executor of the first
\* has failed for good and that of the second waits for a retry.
C34_Witness ==
    /\ Len(consumed) = 2
    /\ tasks[consumed[1].enqueued].state = "FAILURE"
    /\ tasks[consumed[2].enqueued].state = "RETRY"
    /\ consumed[1].consumer # consumed[2].consumer

\* C35: over all the attempts of one message (no worker lost) the transport
\* takes the mail at most once: it has taken it exactly when the message is
\* in SUCCESS; a retry is scheduled only by an attempt that is executing and
\* whose render or send fails, with nothing delivered so far; and once the
\* mail is delivered the message is never executed or retried again.
C35_DeliveredAtMostOnce ==
    /\ [](\A m \in TaskIds :
            LET t == tasks[m]
            IN /\ t.delivered <= 1
               /\ (t.delivered = 1) <=> (t.state = "SUCCESS")
               /\ t.state = "SUCCESS" => t.retried = t.executions - 1)
    /\ [][\A m \in TaskIds :
             LET t == tasks[m]
                 u == tasks'[m]
             IN /\ u.retried > t.retried =>
                      /\ t.state = "STARTED"
                      /\ u.state = "RETRY"
                      /\ u.error \in {"render failed", "send failed"}
                      /\ t.delivered = 0
                      /\ u.delivered = 0
                /\ t.delivered = 1 =>
                      /\ u.executions = t.executions
                      /\ u.retried = t.retried
                      /\ u.delivered = 1]_vars

\* C35 witness: a message delivered in its last attempt after a failed
\* render and a failed send, beside one delivered at once.
C35_Witness ==
    /\ tasks["m1"].delivered = 1
    /\ tasks["m1"].retried = MaxRetries
    /\ tasks["m1"].state = "SUCCESS"
    /\ tasks["m2"].delivered = 1
    /\ tasks["m2"].retried = 0
    /\ tasks["m2"].executions = 1

----------------------------------------------------------------------------
(* The verification fallback, checked under SpecService *)

\* C36: within one send_verification_email call the direct-send fallback is
\* invoked at most once, whether publish yields false, publish or the
\* payload building raises, or the fallback's own render or send fails.
C36_VerificationFallbackAtMostOnce ==
    svc.op = "send_verification_email" => Len(svc.fallbacks) <= 1

\* C37: the fallback and the event path produce the same mail.  Whenever
\* send_verification_email or send_account_locked_notification has built
\* its payload and made a direct send, every render of the direct send used
\* the template and the context that the executor of the published kind
\* computes from that payload, and every mail handed to the transport had
\* that executor's subject and recipient.
C37_FallbackSameAsExecutor ==
    (/\ svc.op \in {"send_verification_email", "send_account_locked_notification"}
     /\ svc.publishes # <<>>
     /\ svc.renders # <<>>) =>
        LET payload == svc.publishes[1][2]
            executor == ConsumerTarget(EVENT_CONSUMERS[svc.publishes[1][1]])
            self == [name |-> executor, retries |-> 0]
        IN /\ \A i \in DOMAIN svc.renders :
                 svc.renders[i] = <<TaskTemplate(executor), TaskContext(self, payload)>>
           /\ \A i \in DOMAIN svc.sends :
                 svc.sends[i] = <<TaskSubject(executor), DictGet(payload, "email")>>

\* C37 witness: publish yielded false and the direct send of the
\* verification mail went through.
C37_Witness ==
    /\ svc.op = "send_verification_email"
    /\ svc.binding = "stubFalse"
    /\ svc.outcome = "returned"
    /\ Len(svc.renders) = 1
    /\ Len(svc.sends) = 1
    /\ svc.renders[1][2].verification_url = <<ServerBaseUrl, "verify-email", "u2", "kot">>

\* C38: executors do not modify the payload and every attempt is executed
\* with the payload of the original dispatch: the argument of a message is
\* the event dict its consumer was invoked with, no step of an executing
\* attempt changes it, and the payload each attempt of the message has seen
\* is that event dict.
C38_PayloadSameInEveryAttempt ==
    /\ [](\A i \in DOMAIN consumed :
            LET t == tasks[consumed[i].enqueued]
            IN /\ t.args = consumed[i].event_data
               /\ Len(t.seen) = t.executions
               /\ \A k \in DOMAIN t.seen : t.seen[k] = consumed[i].event_data
               /\ \A k \in DOMAIN t.renders :
                     t.renders[k][2] =
                         TaskContext([name |-> t.name, retries |-> 0],
                                     consumed[i].event_data))
    /\ [][\A m \in TaskIds :
             tasks[m].state # "NONE" => tasks'[m].args = tasks[m].args]_vars

\* C38 witness: the third attempt of a message is executing on the event
\* dict its consumer was given, which has a boolean among its values.
C38_Witness ==
    /\ Len(consumed) >= 1
    /\ tasks[consumed[1].enqueued].state = "STARTED"
    /\ tasks[consumed[1].enqueued].executions = 3
    /\ Len(tasks[consumed[1].enqueued].seen) = 3
    /\ tasks[consumed[1].enqueued].seen[3] = consumed[1].event_data
    /\ "is_professional" \in DOMAIN consumed[1].event_data

====
